---- MODULE Spec2Model ----
(***************************************************************************)
(* A model of mini-async-http: the reactor's IoWaker pool (io/reactor.rs), *)
(* the task executor (executor/), and the per-connection pipeline of the   *)
(* server (aioserver/).                                                    *)
(***************************************************************************)
EXTENDS Naturals, Integers, Sequences, FiniteSets, TLC

(***************************************************************************)
(* Bounds of the model.                                                    *)
(***************************************************************************)
\* Capacity of the reactor's slab in the model (DEFAULT_SLAB_SIZE scaled down).
SlabSize == 3
\* io sources (listeners, streams) that threads may register.
NumSources == 3
\* Tasks the executor may hold over a run.
NumTasks == 2
\* Worker threads of the pool (ThreadPoolBuilder::size).
NumWorkers == 2
\* Threads that hold a clone of the PoolHandle.
NumCallers == 2
\* Cap on the length of the (unbounded) global injector queue.
MaxQueue == 2
\* Threads of the program besides the workers context::start spawns, and a
\* cap on the calls of context::start.
NumThreads == 2
MaxStarts == 2

(***************************************************************************)
(* Program constants.                                                      *)
(***************************************************************************)
\* data/local_queue.rs: const DEFAULT_SIZE: usize = u16::MAX as usize
DEFAULT_SIZE == 65535
\* aioserver/enhanced_stream.rs: the size of the read buffer, 8 * 1024.
DEFAULT_BUF_SIZE == 8192
MAX_HEADERS == 64

None == 0
Stop == 0
\* Values of a Task.future cell besides None.
Unborn == -1
Fut == 1

\* Bounds of the connection model: requests per connection, segments the
\* client writes, and the sizes of a request's head and of its bodies.
MaxReqs == 2
MaxSegs == 3
HeadLen == 40
LineLen == 16
HdrLen == 11
MaxTrail == 3
\* set_header calls made on one Headers.
MaxSets == 2
\* add_route calls made on one Router.
MaxAdds == 3
\* take and store operations made on one cell.
MaxOps == 4
\* Connections the main loop accepts, Close tasks it handles.
MaxAccepts == 3
MaxCloses == 3
\* The tokens of the main loop.
SERVER == 0
SHUTDOWN == 1
DELETE == 2
WAKER == 3
SmallBody == 10
BigBody == 20000

Sources == 1..NumSources
Keys == 0..(SlabSize - 1)
TaskIds == 1..NumTasks
Workers == 1..NumWorkers
Callers == 1..NumCallers
\* The worker thread made by the n-th context::start is NumThreads + n (one
\* worker stands for the num_cpus workers of a pool).
Threads == 1..(NumThreads + MaxStarts)
ReactorIds == 1..MaxStarts

VARIABLES
  \* ---- reactor (io/reactor.rs)
  freeQ,      \* id_sender/id_receiver: the queue of free IoWakers, by key
  regKey,     \* source -> key of the IoWaker it holds (None: not registered)
  slots,      \* key -> the Waker stored in IoWaker.waker (a task id, or None)
  regPanic,   \* a register found the free queue empty and panicked
  \* ---- readiness (the poller)
  ready,      \* source -> bytes are available to read
  evt,        \* key -> an event for Token(key) was collected and is not yet handled
  \* ---- executor (executor/)
  G,          \* the global injector: a FIFO of task ids and Stop
  local,      \* worker -> its LocalQueue (a Vec used as a stack)
  wpc,        \* worker -> where the worker thread is
  wcur,       \* worker -> the task it dequeued (None: none)
  future,     \* task -> Task.future: Unborn (no such task yet), None or Fut
  hasNotify,  \* task -> Task.notify_queue is Some
  signals,    \* task -> number of sends on its notify_queue
  done,       \* task -> a poll of it returned Ready
  owed,       \* task -> a wake was issued after which no poll has started
  handles,    \* PoolHandle.handles: the JoinHandles not yet received
  stopsSent,  \* Stop messages sent so far
  stopOk,     \* some stop() has returned Ok
  cpc,        \* caller -> where the caller thread is
  cdat        \* caller -> the locals of the call it is in

VARIABLES
  plan,       \* the requests the client sends on the connection, in order
  toSend,     \* bytes of the plan the client has not yet written
  segs,       \* segments the client has written
  sock,       \* bytes in the socket of the connection, not yet read
  edge,       \* the poller holds a readable event for the connection
  cstate,     \* "connected" | "accepted" | "removed"
  jobs,       \* Job::Stream entries of the connection in the job channel
  rbuf,       \* length of EnhancedStream.read
  nextReq,    \* index in plan of the request EnhancedStream.read begins with
  responses,  \* the responses written on the connection (request indexes)
  deleteQ,    \* ids in the delete channel
  last        \* what the last job of a worker did

VARIABLES
  inp,        \* the input of the pure function under study
  outp,       \* its result
  \* ---- a connection's environment and failures (aioserver/)
  peer,       \* "open" | "closed" (the client closed) | "reset" (reads fail)
  wbroken,    \* writes on the connection fail
  wdead,      \* worker threads of the WorkerPool that panicked
  poisoned,   \* the stream's Mutex is poisoned
  handled,    \* the requests passed to the handler (request indexes)
  wfailAt,    \* Len(handled) at the first failed write (0: none failed)
  \* ---- the workers of the WorkerPool, step by step (aioserver/worker.rs)
  jpc,        \* worker -> where it is in Worker::work
  jreqs,      \* worker -> the requests of its job it has still to answer
  lockedBy,   \* the worker that holds the stream's Mutex (None: free)
  \* ---- the server's life (aioserver/server.rs)
  spc,        \* where AIOServer::start is
  started,    \* the bool of ServerHandle.ready
  loopQ,      \* LoopTask::Shutdown messages in the loop's channel
  hpc,        \* caller -> where it is in ServerHandle::ready / shutdown
  sjoined,    \* worker threads joined by WorkerPool::join
  stopQ,      \* Job::Stop messages in the job channel
  dropped,    \* the AIOServer, with the Receiver of its LoopTasks, is dropped
  \* ---- the runtime context and the stream adapters (io/)
  HANDLE,     \* thread -> the reactor its thread-local Handle is of (None: none)
  EXECUTOR,   \* thread -> the pool its thread-local PoolHandle is of (None: none)
  reactors,   \* the reactors (and pools) context::start has made so far
  pools,      \* reactor -> its free queue of IoWaker keys
  adp,        \* source -> the adapter around it: its life and its IoWaker
  polls,      \* worker -> its last poll of an adapter: the call's result, the outcome
  spawned,    \* the calls of context::spawn, in order: the thread, the queue pushed onto
  \* ---- the connection tokens of the synchronous server (aioserver/)
  gen,        \* the IdGenerator of the main loop: used (a set) and pos
  streams,    \* the HashMap of the main loop: Token -> the connection it holds
  conns,      \* the connections accepted, in order: the id given, open / closed / refused
  closes      \* the Close tasks handled: how many, the id of the last one, what it found

reactorVars == <<freeQ, regKey, slots, regPanic>>
ioVars == <<ready, evt>>
execVars == <<G, local, wpc, wcur, future, hasNotify, signals, done, owed>>
poolVars == <<handles, stopsSent, stopOk, cpc, cdat>>
connVars == <<plan, toSend, segs, sock, edge, cstate, jobs, rbuf, nextReq, responses, deleteQ, last>>
pureVars == <<inp, outp>>
errVars == <<peer, wbroken, wdead, poisoned, handled, wfailAt>>
fineVars == <<jpc, jreqs, lockedBy>>
srvVars == <<spc, started, loopQ, hpc, sjoined, stopQ, dropped>>
tokVars == <<gen, streams, conns, closes>>
ctxVars == <<HANDLE, EXECUTOR, reactors, pools, adp, polls, spawned, tokVars>>
extVars == <<pureVars, errVars, fineVars, srvVars, ctxVars>>
syncVars == <<connVars, extVars>>
vars == <<reactorVars, ioVars, execVars, poolVars, connVars, extVars>>

\* The locals of a caller: the operation it called last, its result, the task
\* it submitted, the Stops it still has to send, the worker it is joining, and
\* whether some stop() had returned Ok when the call began.
NoCall == [op |-> "none", res |-> "none", t |-> None, n |-> 0, j |-> None, after |-> FALSE]

\* No connection: the values of the connection's variables when the
\* synchronous server is not used.
NoJob == [pre |-> 0, n |-> 0, first |-> 1, out |-> <<>>]

\* No pure function is studied, nothing fails on the connection, and the
\* server's workers and life are not looked at.
NoPure ==
  /\ inp = None
  /\ outp = None

NoErr ==
  /\ peer = "open"
  /\ wbroken = FALSE
  /\ wdead = 0
  /\ poisoned = FALSE
  /\ handled = <<>>
  /\ wfailAt = 0

NoFine ==
  /\ jpc = [w \in Workers |-> "idle"]
  /\ jreqs = [w \in Workers |-> <<>>]
  /\ lockedBy = None

NoSrv ==
  /\ spc = "running"
  /\ started = TRUE
  /\ loopQ = 0
  /\ hpc = [c \in Callers |-> "idle"]
  /\ sjoined = 0
  /\ stopQ = 0
  /\ dropped = FALSE

NoSock ==
  /\ plan = <<>>
  /\ toSend = 0
  /\ segs = 0
  /\ sock = 0
  /\ edge = FALSE
  /\ cstate = "connected"
  /\ jobs = 0
  /\ rbuf = 0
  /\ nextReq = 1
  /\ responses = <<>>
  /\ deleteQ = 0
  /\ last = NoJob

\* No adapter exists, and the runtime context is not looked at.
NoAdapter == [st |-> "none", r |-> None, key |-> None]

\* No poll of an adapter was made.
NoPoll == [io |-> "none", n |-> 0, poll |-> "none", res |-> "none"]

\* No Close task was handled.
NoClose == [n |-> 0, id |-> 0, found |-> "none"]

\* The main loop of the synchronous server accepts nothing.
NoTok ==
  /\ gen = [used |-> {}, pos |-> 0]
  /\ streams = <<>>
  /\ conns = <<>>
  /\ closes = NoClose

NoCtx ==
  /\ NoTok
  /\ polls = [w \in Workers |-> NoPoll]
  /\ spawned = <<>>
  /\ HANDLE = [t \in Threads |-> None]
  /\ EXECUTOR = [t \in Threads |-> None]
  /\ reactors = 0
  /\ pools = [r \in ReactorIds |-> <<>>]
  /\ adp = [s \in Sources |-> NoAdapter]

NoConn == NoPure /\ NoErr /\ NoFine /\ NoSrv /\ NoSock /\ NoCtx

(***************************************************************************)
(* data/atomic_take.rs: AtomicTake<T> over AtomicCell<Option<T>>.          *)
(* A cell is None or a value; take swaps None in and returns the old       *)
(* content; store overwrites.                                              *)
(***************************************************************************)
\* A take that leaves the value in the cell.
AtomicTake_peek(cell) == [got |-> cell, cell |-> cell]

AtomicTake_take(cell) == [got |-> cell, cell |-> None]

\* A store that keeps what the cell holds.
AtomicTake_store_first(cell, value) == IF cell = None THEN value ELSE cell

AtomicTake_store(cell, value) == value

(***************************************************************************)
(* io/reactor.rs                                                           *)
(***************************************************************************)
\* Reactor::new: the slab is filled; key 0 is the self-wake token and is
\* never pushed onto the free queue; keys 1..capacity-1 are, in order.
waker_token == 0

RECURSIVE KeysFrom(_, _)
KeysFrom(k, n) == IF k > n THEN <<>> ELSE <<k>> \o KeysFrom(k + 1, n)

\* A free queue that holds every key of the slab.
InitFreeQAll == KeysFrom(0, SlabSize - 1)

InitFreeQ == KeysFrom(1, SlabSize - 1)


\* A register that clones the first free waker and leaves it in the queue.
RegisterShared(s) ==
  /\ regKey[s] = None
  /\ freeQ # <<>>
  /\ regKey' = [regKey EXCEPT ![s] = Head(freeQ)]
  /\ UNCHANGED <<freeQ, slots, regPanic>>
  /\ UNCHANGED <<ioVars, execVars, poolVars>>
  /\ UNCHANGED syncVars

\* Handle::register: try_recv a free waker (panic if none), register the
\* source with the poller under Token(key), return the waker.
Register(s) ==
  /\ regKey[s] = None
  /\ freeQ # <<>>
  /\ regKey' = [regKey EXCEPT ![s] = Head(freeQ)]
  /\ freeQ' = Tail(freeQ)
  /\ UNCHANGED <<slots, regPanic>>
  /\ UNCHANGED <<ioVars, execVars, poolVars>>
  /\ UNCHANGED syncVars

RegisterPanic(s) ==
  /\ regKey[s] = None
  /\ freeQ = <<>>
  /\ regPanic' = TRUE
  /\ UNCHANGED <<freeQ, regKey, slots>>
  /\ UNCHANGED <<ioVars, execVars, poolVars>>
  /\ UNCHANGED syncVars

\* A deregister that forgets to hand the waker back.
DeregisterLeak(s) ==
  /\ regKey[s] # None
  /\ regKey' = [regKey EXCEPT ![s] = None]
  /\ UNCHANGED <<freeQ, slots, regPanic>>
  /\ UNCHANGED <<ioVars, execVars, poolVars>>
  /\ UNCHANGED syncVars

\* Handle::deregister: remove the source from the poller, send the waker
\* back to the free queue. The waker's cell is left as it is.
Deregister(s) ==
  /\ regKey[s] # None
  /\ freeQ' = Append(freeQ, regKey[s])
  /\ regKey' = [regKey EXCEPT ![s] = None]
  /\ UNCHANGED <<slots, regPanic>>
  /\ UNCHANGED <<ioVars, execVars, poolVars>>
  /\ UNCHANGED syncVars

\* crossbeam channel: a send succeeds while some Receiver is alive. The
\* receivers of the injector are the clones the worker threads own.
Alive == \E w \in Workers : wpc[w] # "exited"

\* ArcWake for Task: wake_by_ref sends Task(arc_self) on task_sender; the
\* send fails, and the expect panics, when no Receiver is left.
wake_by_ref(t) ==
  /\ Len(SelectSeq(G, LAMBDA m : m # Stop)) < MaxQueue
  /\ G' = IF Alive THEN Append(G, t) ELSE G

\* IoWaker::set_waker, as the stream adapters call it with the waker of the
\* task that polls them.
SetWaker(s, t) ==
  /\ regKey[s] # None
  /\ slots' = [slots EXCEPT ![regKey[s]] = AtomicTake_store(@, t)]
  /\ UNCHANGED <<freeQ, regKey, regPanic>>
  /\ UNCHANGED <<ioVars, execVars, poolVars>>
  /\ UNCHANGED syncVars

\* The poller (mio, edge triggered) reports a readiness event for a registered
\* source under its token; Reactor::turn collects it. Events of one token
\* coalesce until the reactor handles them.
Readable(s) ==
  /\ regKey[s] # None
  /\ ~evt[regKey[s]]
  /\ evt' = [evt EXCEPT ![regKey[s]] = TRUE]
  /\ UNCHANGED ready
  /\ UNCHANGED <<reactorVars, execVars, poolVars>>
  /\ UNCHANGED syncVars

\* mio::Waker::wake on Reactor.waker, which Reactor::new registers under
\* Token(waker_token): the poller reports an event under that token. The
\* crate holds no call of it; the event is an input of handle_event.
SelfWake ==
  /\ ~evt[waker_token]
  /\ evt' = [evt EXCEPT ![waker_token] = TRUE]
  /\ UNCHANGED ready
  /\ UNCHANGED <<reactorVars, execVars, poolVars>>
  /\ UNCHANGED syncVars

\* A handle_event that wakes the stored waker and leaves it in its cell.
HandleEventKeep(k) ==
  /\ evt[k]
  /\ evt' = [evt EXCEPT ![k] = FALSE]
  /\ IF k = waker_token \/ slots[k] = None
     THEN UNCHANGED <<G, owed>>
     ELSE /\ wake_by_ref(slots[k])
          /\ owed' = [owed EXCEPT ![slots[k]] = TRUE]
  /\ UNCHANGED <<freeQ, regKey, slots, regPanic, ready>>
  /\ UNCHANGED <<local, wpc, wcur, future, hasNotify, signals, done>>
  /\ UNCHANGED poolVars
  /\ UNCHANGED syncVars

\* Reactor::handle_event for a collected event with token k: the self-wake
\* token is dropped; otherwise the slot's waker is taken and, if there was
\* one, woken.
HandleEvent(k) ==
  /\ evt[k]
  /\ evt' = [evt EXCEPT ![k] = FALSE]
  /\ LET r == AtomicTake_take(slots[k])
     IN IF k = waker_token
        THEN UNCHANGED <<slots, G, owed>>
        ELSE /\ slots' = [slots EXCEPT ![k] = r.cell]
             /\ IF r.got = None
                THEN UNCHANGED <<G, owed>>
                ELSE /\ wake_by_ref(r.got)
                     /\ owed' = [owed EXCEPT ![r.got] = TRUE]
  /\ UNCHANGED <<freeQ, regKey, regPanic, ready>>
  /\ UNCHANGED <<local, wpc, wcur, future, hasNotify, signals, done>>
  /\ UNCHANGED poolVars
  /\ UNCHANGED syncVars

(***************************************************************************)
(* The reactor alone: threads register and deregister sources, store       *)
(* wakers, and the reactor thread handles events.                          *)
(***************************************************************************)
InitReactor ==
  /\ freeQ = InitFreeQ
  /\ regKey = [s \in Sources |-> None]
  /\ slots = [k \in Keys |-> None]
  /\ regPanic = FALSE
  /\ ready = [s \in Sources |-> FALSE]
  /\ evt = [k \in Keys |-> FALSE]
  /\ G = <<>>
  /\ local = [w \in Workers |-> <<>>]
  /\ wpc = [w \in Workers |-> "idle"]
  /\ wcur = [w \in Workers |-> None]
  /\ future = [t \in TaskIds |-> Fut]
  /\ hasNotify = [t \in TaskIds |-> FALSE]
  /\ signals = [t \in TaskIds |-> 0]
  /\ done = [t \in TaskIds |-> FALSE]
  /\ owed = [t \in TaskIds |-> FALSE]
  /\ handles = <<>>
  /\ stopsSent = 0
  /\ stopOk = FALSE
  /\ cpc = [c \in Callers |-> "idle"]
  /\ cdat = [c \in Callers |-> NoCall]
  /\ NoConn

NextReactor ==
  \/ \E s \in Sources : Register(s)
  \/ \E s \in Sources : RegisterPanic(s)
  \/ \E s \in Sources : Deregister(s)
  \/ \E s \in Sources, t \in TaskIds : SetWaker(s, t)
  \/ \E s \in Sources : Readable(s)
  \/ SelfWake
  \/ \E k \in Keys : HandleEvent(k)

SpecReactor == InitReactor /\ [][NextReactor]_vars

Registered == {s \in Sources : regKey[s] # None}

(***************************************************************************)
(* executor/: the pool's worker threads (thread_pool.rs, worker.rs), the   *)
(* tasks (mod.rs) and the PoolHandle operations (thread_pool.rs).          *)
(***************************************************************************)
\* The io source a task's future reads (a TcpStream it owns) and its key.
TaskSource(t) == t

TaskKey(t) == regKey[TaskSource(t)]

InQueue(q, t) == \E i \in 1..Len(q) : q[i] = t

\* Some Arc<Task> of t is alive: in a queue, in a worker's hands, or in a
\* waker stored in an IoWaker.
Referenced(t) ==
  \/ InQueue(G, t)
  \/ \E w \in Workers : InQueue(local[w], t) \/ wcur[w] = t
  \/ \E k \in Keys : slots[k] = t

HasUnborn == \E t \in TaskIds : future[t] = Unborn

NewTask == CHOOSE t \in TaskIds : future[t] = Unborn /\ \A u \in TaskIds : future[u] = Unborn => t <= u

\* A push that, on a full Vec, reports success and drops the value.
LocalQueue_push_drop(q, val) ==
  IF Len(q) >= DEFAULT_SIZE THEN [ok |-> TRUE, q |-> q] ELSE [ok |-> TRUE, q |-> Append(q, val)]

\* LocalQueue::push: refuses when the Vec holds DEFAULT_SIZE elements.
LocalQueue_push(q, val) ==
  IF Len(q) >= DEFAULT_SIZE THEN [ok |-> FALSE, q |-> q] ELSE [ok |-> TRUE, q |-> Append(q, val)]

\* LocalQueue::pop: Vec::pop, the last element.
LocalQueue_pop(q) ==
  IF q = <<>> THEN [ok |-> FALSE, val |-> None, q |-> q]
  ELSE [ok |-> TRUE, val |-> q[Len(q)], q |-> SubSeq(q, 1, Len(q) - 1)]

\* A pop_task that receives from the injector whenever it holds a message and
\* looks at the local queue only otherwise.
PopTaskGlobalFirst(w) ==
  /\ wpc[w] = "idle"
  /\ IF G # <<>>
     THEN /\ G' = Tail(G)
          /\ UNCHANGED local
          /\ IF Head(G) = Stop
             THEN /\ wpc' = [wpc EXCEPT ![w] = "stopping"]
                  /\ UNCHANGED wcur
             ELSE /\ wpc' = [wpc EXCEPT ![w] = "got"]
                  /\ wcur' = [wcur EXCEPT ![w] = Head(G)]
     ELSE /\ LocalQueue_pop(local[w]).ok
          /\ local' = [local EXCEPT ![w] = LocalQueue_pop(@).q]
          /\ wcur' = [wcur EXCEPT ![w] = LocalQueue_pop(local[w]).val]
          /\ wpc' = [wpc EXCEPT ![w] = "got"]
          /\ UNCHANGED G
  /\ UNCHANGED <<future, hasNotify, signals, done, owed>>
  /\ UNCHANGED <<reactorVars, ioVars, poolVars>>
  /\ UNCHANGED syncVars

\* Worker::pop_task: the local queue first, else a blocking recv on the
\* injector; a Stop message ends the loop.
PopTask(w) ==
  /\ wpc[w] = "idle"
  /\ LET p == LocalQueue_pop(local[w])
     IN IF p.ok
        THEN /\ local' = [local EXCEPT ![w] = p.q]
             /\ wcur' = [wcur EXCEPT ![w] = p.val]
             /\ wpc' = [wpc EXCEPT ![w] = "got"]
             /\ UNCHANGED G
        ELSE /\ G # <<>>
             /\ G' = Tail(G)
             /\ UNCHANGED local
             /\ IF Head(G) = Stop
                THEN /\ wpc' = [wpc EXCEPT ![w] = "stopping"]
                     /\ UNCHANGED wcur
                ELSE /\ wpc' = [wpc EXCEPT ![w] = "got"]
                     /\ wcur' = [wcur EXCEPT ![w] = Head(G)]
  /\ UNCHANGED <<future, hasNotify, signals, done, owed>>
  /\ UNCHANGED <<reactorVars, ioVars, poolVars>>
  /\ UNCHANGED syncVars

\* Worker::run: task.future.take(); a task whose cell is empty is skipped.
Take(w) ==
  /\ wpc[w] = "got"
  /\ LET t == wcur[w]
         r == AtomicTake_take(future[t])
     IN IF r.got = None
        THEN /\ wpc' = [wpc EXCEPT ![w] = "idle"]
             /\ wcur' = [wcur EXCEPT ![w] = None]
             /\ UNCHANGED <<future, owed>>
        ELSE /\ future' = [future EXCEPT ![t] = r.cell]
             /\ owed' = [owed EXCEPT ![t] = FALSE]
             /\ wpc' = [wpc EXCEPT ![w] = "polling"]
             /\ UNCHANGED wcur
  /\ UNCHANGED <<G, local, hasNotify, signals, done>>
  /\ UNCHANGED <<reactorVars, ioVars, poolVars>>
  /\ UNCHANGED syncVars

\* A wake that pushes the task onto the local queue of the worker it runs on.
WakeSelfLocal(w) ==
  /\ wpc[w] = "polling"
  /\ local' = [local EXCEPT ![w] = Append(@, wcur[w])]
  /\ owed' = [owed EXCEPT ![wcur[w]] = TRUE]
  /\ UNCHANGED <<G, wpc, wcur, future, hasNotify, signals, done>>
  /\ UNCHANGED <<reactorVars, ioVars, poolVars>>
  /\ UNCHANGED syncVars

\* The future, while polled, wakes its own task (cx.waker().wake_by_ref()).
WakeSelf(w) ==
  /\ wpc[w] = "polling"
  /\ wake_by_ref(wcur[w])
  /\ owed' = [owed EXCEPT ![wcur[w]] = TRUE]
  /\ UNCHANGED <<local, wpc, wcur, future, hasNotify, signals, done>>
  /\ UNCHANGED <<reactorVars, ioVars, poolVars>>
  /\ UNCHANGED syncVars

\* context::spawn on a worker thread: Worker::enqueue builds a task without
\* notify queue and pushes it onto the local queue, or onto the injector when
\* the local queue refuses it.
Enqueue(w) ==
  /\ wpc[w] = "polling"
  /\ HasUnborn
  /\ LET t == NewTask
         p == LocalQueue_push(local[w], t)
     IN /\ future' = [future EXCEPT ![t] = Fut]
        /\ hasNotify' = [hasNotify EXCEPT ![t] = FALSE]
        /\ IF p.ok
           THEN local' = [local EXCEPT ![w] = p.q] /\ UNCHANGED G
           ELSE wake_by_ref(t) /\ UNCHANGED local
  /\ UNCHANGED <<wpc, wcur, signals, done, owed>>
  /\ UNCHANGED <<reactorVars, ioVars, poolVars>>
  /\ UNCHANGED syncVars

\* A poll that attempts the call without having stored the waker.
PollSkipWaker(w) ==
  /\ wpc[w] = "polling"
  /\ TaskKey(wcur[w]) # None
  /\ wpc' = [wpc EXCEPT ![w] = "reading"]
  /\ UNCHANGED reactorVars
  /\ UNCHANGED <<G, local, wcur, future, hasNotify, signals, done, owed>>
  /\ UNCHANGED <<ioVars, poolVars>>
  /\ UNCHANGED syncVars

\* TcpStream::poll_read, first half: store the caller's waker in the IoWaker.
PollSetWaker(w) ==
  /\ wpc[w] = "polling"
  /\ TaskKey(wcur[w]) # None
  /\ slots' = [slots EXCEPT ![TaskKey(wcur[w])] = AtomicTake_store(@, wcur[w])]
  /\ wpc' = [wpc EXCEPT ![w] = "reading"]
  /\ UNCHANGED <<freeQ, regKey, regPanic>>
  /\ UNCHANGED <<G, local, wcur, future, hasNotify, signals, done, owed>>
  /\ UNCHANGED <<ioVars, poolVars>>
  /\ UNCHANGED syncVars

\* TcpStream::poll_read, second half: the non-blocking read. Bytes make the
\* future complete (Poll::Ready); WouldBlock makes it return Poll::Pending.
PollRead(w) ==
  /\ wpc[w] = "reading"
  /\ LET t == wcur[w]
     IN IF ready[TaskSource(t)]
        THEN /\ ready' = [ready EXCEPT ![TaskSource(t)] = FALSE]
             /\ done' = [done EXCEPT ![t] = TRUE]
             /\ wpc' = [wpc EXCEPT ![w] = "ready"]
        ELSE /\ wpc' = [wpc EXCEPT ![w] = "pending"]
             /\ UNCHANGED <<ready, done>>
  /\ UNCHANGED <<G, local, wcur, future, hasNotify, signals, owed, evt>>
  /\ UNCHANGED <<reactorVars, poolVars>>
  /\ UNCHANGED syncVars

\* What the non-blocking call of a poll (TcpStream::read, TcpListener::accept)
\* can return: Ok with a number of bytes (1 stands for a connection or some
\* bytes, 0 for the end of the stream), WouldBlock, or another error.
IoResults ==
  {[io |-> "Ok", n |-> 1], [io |-> "Ok", n |-> 0],
   [io |-> "WouldBlock", n |-> 0], [io |-> "Other", n |-> 0]}

\* The match of poll_read and of AcceptFuture::poll on the call's result.
poll_read(r) ==
  CASE r.io = "Ok" -> [io |-> r.io, n |-> r.n, poll |-> "Ready", res |-> "Ok"]
    [] r.io = "WouldBlock" -> [io |-> r.io, n |-> r.n, poll |-> "Pending", res |-> "none"]
    [] OTHER -> [io |-> r.io, n |-> r.n, poll |-> "Ready", res |-> "Err"]

\* TcpStream::poll_read / AcceptFuture::poll, the non-blocking call with
\* result r and the match on it. Bytes that are there are read; otherwise the
\* call blocks, meets the end of the stream, or fails. The future of the task
\* completes when its poll of the adapter is Ready.
PollAttempt(w, r) ==
  /\ wpc[w] = "reading"
  /\ ready[TaskSource(wcur[w])] <=> (r.io = "Ok" /\ r.n > 0)
  /\ polls' = [polls EXCEPT ![w] = poll_read(r)]
  /\ ready' = [ready EXCEPT ![TaskSource(wcur[w])] = FALSE]
  /\ IF poll_read(r).poll = "Pending"
     THEN /\ wpc' = [wpc EXCEPT ![w] = "pending"]
          /\ UNCHANGED done
     ELSE /\ wpc' = [wpc EXCEPT ![w] = "ready"]
          /\ done' = [done EXCEPT ![wcur[w]] = TRUE]
  /\ UNCHANGED <<G, local, wcur, future, hasNotify, signals, owed, evt>>
  /\ UNCHANGED <<reactorVars, poolVars, connVars>>
  /\ UNCHANGED <<pureVars, errVars, fineVars, srvVars>>
  /\ UNCHANGED <<HANDLE, EXECUTOR, reactors, pools, adp, spawned, tokVars>>

\* Worker::run on Poll::Pending: task.future.store(future).
StorePending(w) ==
  /\ wpc[w] = "pending"
  /\ future' = [future EXCEPT ![wcur[w]] = AtomicTake_store(@, Fut)]
  /\ wpc' = [wpc EXCEPT ![w] = "idle"]
  /\ wcur' = [wcur EXCEPT ![w] = None]
  /\ UNCHANGED <<G, local, hasNotify, signals, done, owed>>
  /\ UNCHANGED <<reactorVars, ioVars, poolVars>>
  /\ UNCHANGED syncVars

\* A notify that sends whether or not the task has a notify queue.
Task_notifyAlways(t) ==
  signals' = [signals EXCEPT ![t] = @ + 1]

\* Task::notify: send on notify_queue if there is one.
Task_notify(t) ==
  signals' = [signals EXCEPT ![t] = IF hasNotify[t] THEN @ + 1 ELSE @]

\* A run that puts the future back into its cell on Poll::Ready too.
NotifyReadyStore(w) ==
  /\ wpc[w] = "ready"
  /\ Task_notify(wcur[w])
  /\ future' = [future EXCEPT ![wcur[w]] = AtomicTake_store(@, Fut)]
  /\ wpc' = [wpc EXCEPT ![w] = "idle"]
  /\ wcur' = [wcur EXCEPT ![w] = None]
  /\ UNCHANGED <<G, local, hasNotify, done, owed>>
  /\ UNCHANGED <<reactorVars, ioVars, poolVars>>
  /\ UNCHANGED syncVars

\* Worker::run on Poll::Ready: task.notify(); the future is dropped.
NotifyReady(w) ==
  /\ wpc[w] = "ready"
  /\ Task_notify(wcur[w])
  /\ wpc' = [wpc EXCEPT ![w] = "idle"]
  /\ wcur' = [wcur EXCEPT ![w] = None]
  /\ UNCHANGED <<G, local, future, hasNotify, done, owed>>
  /\ UNCHANGED <<reactorVars, ioVars, poolVars>>
  /\ UNCHANGED syncVars

\* The loop has ended on a Stop: the before_stop hook runs, the thread ends.
BeforeStop(w) ==
  /\ wpc[w] = "stopping"
  /\ wpc' = [wpc EXCEPT ![w] = "exited"]
  /\ UNCHANGED <<G, local, wcur, future, hasNotify, signals, done, owed>>
  /\ UNCHANGED <<reactorVars, ioVars, poolVars>>
  /\ UNCHANGED syncVars

\* Bytes arrive on the stream owned by a future that exists and has not
\* completed: the read will find them, and the poller reports the stream
\* readable.
DataArrives(s) ==
  /\ regKey[s] # None
  /\ \E t \in TaskIds : TaskSource(t) = s /\ future[t] # Unborn /\ ~done[t]
  /\ ~ready[s]
  /\ ready' = [ready EXCEPT ![s] = TRUE]
  /\ evt' = [evt EXCEPT ![regKey[s]] = TRUE]
  /\ UNCHANGED <<reactorVars, execVars, poolVars>>
  /\ UNCHANGED syncVars

\* PoolHandle::spawn: a task without notify queue is sent on the injector;
\* Err(PoolError::Spawn) when the send fails.
Spawn(c) ==
  /\ cpc[c] = "idle"
  /\ HasUnborn
  /\ IF Alive
     THEN /\ future' = [future EXCEPT ![NewTask] = Fut]
          /\ hasNotify' = [hasNotify EXCEPT ![NewTask] = FALSE]
          /\ wake_by_ref(NewTask)
          /\ cdat' = [cdat EXCEPT ![c] = [NoCall EXCEPT !.op = "spawn", !.res = "Ok",
                                                   !.t = NewTask, !.after = stopOk]]
     ELSE /\ cdat' = [cdat EXCEPT ![c] = [NoCall EXCEPT !.op = "spawn", !.res = "ErrSpawn",
                                                   !.after = stopOk]]
          /\ UNCHANGED <<future, hasNotify, G>>
  /\ UNCHANGED <<local, wpc, wcur, signals, done, owed>>
  /\ UNCHANGED <<handles, stopsSent, stopOk, cpc>>
  /\ UNCHANGED <<reactorVars, ioVars>>
  /\ UNCHANGED syncVars

\* PoolHandle::block_on, up to the send: a task with a notify queue is sent
\* on the injector; Err(PoolError::Spawn) when the send fails.
BlockOn(c) ==
  /\ cpc[c] = "idle"
  /\ HasUnborn
  /\ IF Alive
     THEN /\ future' = [future EXCEPT ![NewTask] = Fut]
          /\ hasNotify' = [hasNotify EXCEPT ![NewTask] = TRUE]
          /\ wake_by_ref(NewTask)
          /\ cpc' = [cpc EXCEPT ![c] = "block_wait"]
          /\ cdat' = [cdat EXCEPT ![c] = [NoCall EXCEPT !.op = "block_on",
                                                   !.t = NewTask, !.after = stopOk]]
     ELSE /\ cdat' = [cdat EXCEPT ![c] = [NoCall EXCEPT !.op = "block_on", !.res = "ErrSpawn",
                                                   !.after = stopOk]]
          /\ UNCHANGED <<future, hasNotify, G, cpc>>
  /\ UNCHANGED <<local, wpc, wcur, signals, done, owed>>
  /\ UNCHANGED <<handles, stopsSent, stopOk>>
  /\ UNCHANGED <<reactorVars, ioVars>>
  /\ UNCHANGED syncVars

\* A recv that returns Ok without a signal.
BlockOnRecvEarly(c) ==
  /\ cpc[c] = "block_wait"
  /\ cdat' = [cdat EXCEPT ![c].res = "Ok"]
  /\ cpc' = [cpc EXCEPT ![c] = "idle"]
  /\ UNCHANGED <<handles, stopsSent, stopOk>>
  /\ UNCHANGED <<reactorVars, ioVars, execVars>>
  /\ UNCHANGED syncVars

\* PoolHandle::block_on, receiver.recv(): Ok once the signal is there;
\* Err(PoolError::Block) when the task, and with it the sender, was dropped
\* without a signal.
BlockOnRecv(c) ==
  /\ cpc[c] = "block_wait"
  /\ \/ /\ signals[cdat[c].t] >= 1
        /\ cdat' = [cdat EXCEPT ![c].res = "Ok"]
     \/ /\ signals[cdat[c].t] = 0
        /\ ~Referenced(cdat[c].t)
        /\ cdat' = [cdat EXCEPT ![c].res = "ErrBlock"]
  /\ cpc' = [cpc EXCEPT ![c] = "idle"]
  /\ UNCHANGED <<handles, stopsSent, stopOk>>
  /\ UNCHANGED <<reactorVars, ioVars, execVars>>
  /\ UNCHANGED syncVars

\* A stop() that does not look at the number of JoinHandles first.
StopBeginNoCheck(c) ==
  /\ cpc[c] = "idle"
  /\ cdat' = [cdat EXCEPT ![c] = [NoCall EXCEPT !.op = "stop", !.n = Len(handles),
                                           !.after = stopOk]]
  /\ cpc' = [cpc EXCEPT ![c] = "stop_send"]
  /\ UNCHANGED <<handles, stopsSent, stopOk>>
  /\ UNCHANGED <<reactorVars, ioVars, execVars>>
  /\ UNCHANGED syncVars

\* PoolHandle::stop, the test of handles.len(): Err(PoolError::Stop) when no JoinHandle is
\* left; else one Stop is to be sent per JoinHandle in the channel.
StopBegin(c) ==
  /\ cpc[c] = "idle"
  /\ IF Len(handles) = 0
     THEN /\ cdat' = [cdat EXCEPT ![c] = [NoCall EXCEPT !.op = "stop", !.res = "ErrStop",
                                                   !.after = stopOk]]
          /\ UNCHANGED cpc
     ELSE /\ cdat' = [cdat EXCEPT ![c] = [NoCall EXCEPT !.op = "stop", !.n = Len(handles),
                                                   !.after = stopOk]]
          /\ cpc' = [cpc EXCEPT ![c] = "stop_send"]
  /\ UNCHANGED <<handles, stopsSent, stopOk>>
  /\ UNCHANGED <<reactorVars, ioVars, execVars>>
  /\ UNCHANGED syncVars

\* PoolHandle::stop, the first loop: send one Stop; Err(PoolError::Stop) when
\* the send fails.
StopSend(c) ==
  /\ cpc[c] = "stop_send"
  /\ IF cdat[c].n = 0
     THEN /\ cpc' = [cpc EXCEPT ![c] = "stop_join"]
          /\ UNCHANGED <<G, stopsSent, cdat>>
     ELSE IF Alive
     THEN /\ G' = Append(G, Stop)
          /\ stopsSent' = stopsSent + 1
          /\ cdat' = [cdat EXCEPT ![c].n = @ - 1]
          /\ UNCHANGED cpc
     ELSE /\ cdat' = [cdat EXCEPT ![c].res = "ErrStop"]
          /\ cpc' = [cpc EXCEPT ![c] = "idle"]
          /\ UNCHANGED <<G, stopsSent>>
  /\ UNCHANGED <<handles, stopOk>>
  /\ UNCHANGED <<local, wpc, wcur, future, hasNotify, signals, done, owed>>
  /\ UNCHANGED <<reactorVars, ioVars>>
  /\ UNCHANGED syncVars

\* PoolHandle::stop, the second loop: receive the next JoinHandle; the
\* iteration ends, and stop returns Ok, when the channel is empty.
StopJoin(c) ==
  /\ cpc[c] = "stop_join"
  /\ IF handles = <<>>
     THEN /\ cdat' = [cdat EXCEPT ![c].res = "Ok"]
          /\ cpc' = [cpc EXCEPT ![c] = "idle"]
          /\ stopOk' = TRUE
          /\ UNCHANGED handles
     ELSE /\ cdat' = [cdat EXCEPT ![c].j = Head(handles)]
          /\ handles' = Tail(handles)
          /\ cpc' = [cpc EXCEPT ![c] = "stop_joining"]
          /\ UNCHANGED stopOk
  /\ UNCHANGED stopsSent
  /\ UNCHANGED <<reactorVars, ioVars, execVars>>
  /\ UNCHANGED syncVars

\* JoinHandle::join returns when the worker thread has ended.
StopJoined(c) ==
  /\ cpc[c] = "stop_joining"
  /\ wpc[cdat[c].j] = "exited"
  /\ cdat' = [cdat EXCEPT ![c].j = None]
  /\ cpc' = [cpc EXCEPT ![c] = "stop_join"]
  /\ UNCHANGED <<handles, stopsSent, stopOk>>
  /\ UNCHANGED <<reactorVars, ioVars, execVars>>
  /\ UNCHANGED syncVars

\* ThreadPoolBuilder::build has returned: the worker threads are spawned (each
\* is about to run its after_start hook and then to receive), their
\* JoinHandles are in the channel; every task's stream is registered.
InitExec ==
  /\ freeQ = KeysFrom(NumTasks + 1, SlabSize - 1)
  /\ regKey = [s \in Sources |-> IF s \in TaskIds /\ s < SlabSize THEN s ELSE None]
  /\ slots = [k \in Keys |-> None]
  /\ regPanic = FALSE
  /\ ready = [s \in Sources |-> FALSE]
  /\ evt = [k \in Keys |-> FALSE]
  /\ G = <<>>
  /\ local = [w \in Workers |-> <<>>]
  /\ wpc = [w \in Workers |-> "idle"]
  /\ wcur = [w \in Workers |-> None]
  /\ future = [t \in TaskIds |-> Unborn]
  /\ hasNotify = [t \in TaskIds |-> FALSE]
  /\ signals = [t \in TaskIds |-> 0]
  /\ done = [t \in TaskIds |-> FALSE]
  /\ owed = [t \in TaskIds |-> FALSE]
  /\ handles = KeysFrom(1, NumWorkers)
  /\ stopsSent = 0
  /\ stopOk = FALSE
  /\ cpc = [c \in Callers |-> "idle"]
  /\ cdat = [c \in Callers |-> NoCall]
  /\ NoConn

\* One step of a running worker thread whose futures wake themselves and
\* spawn.
WorkerStep(w) ==
  \/ PopTask(w)
  \/ Take(w)
  \/ WakeSelf(w)
  \/ Enqueue(w)
  \/ PollSetWaker(w)
  \/ PollRead(w)
  \/ StorePending(w)
  \/ NotifyReady(w)

\* One step of a running worker thread whose futures only read their stream.
ReadStep(w) ==
  \/ PopTask(w)
  \/ Take(w)
  \/ PollSetWaker(w)
  \/ PollRead(w)
  \/ StorePending(w)
  \/ NotifyReady(w)

\* One step of such a worker thread in a pool that is stopped.
PlainStep(w) ==
  \/ ReadStep(w)
  \/ BeforeStop(w)

SubmitStep(c) ==
  \/ Spawn(c)
  \/ BlockOn(c)
  \/ BlockOnRecv(c)

CallerStep(c) ==
  \/ SubmitStep(c)
  \/ StopBegin(c)
  \/ StopSend(c)
  \/ StopJoin(c)
  \/ StopJoined(c)

\* The running pool: tasks are submitted, polled, woken by the reactor.
NextExec ==
  \/ \E w \in Workers : WorkerStep(w)
  \/ \E c \in Callers : SubmitStep(c)
  \/ \E s \in Sources : DataArrives(s)
  \/ \E k \in Keys : HandleEvent(k)

SpecExec == InitExec /\ [][NextExec]_vars

\* One step of a worker thread whose futures poll an adapter, whatever the
\* call returns.
PollStep(w) ==
  \/ PopTask(w)
  \/ Take(w)
  \/ PollSetWaker(w)
  \/ \E r \in IoResults : PollAttempt(w, r)
  \/ StorePending(w)
  \/ NotifyReady(w)

NextPoll ==
  \/ \E w \in Workers : PollStep(w)
  \/ \E c \in Callers : Spawn(c)
  \/ \E s \in Sources : DataArrives(s)
  \/ \E k \in Keys : HandleEvent(k)

SpecPoll == InitExec /\ [][NextPoll]_vars

\* Callers that only block on futures that only read their stream.
BlockStep(c) ==
  \/ BlockOn(c)
  \/ BlockOnRecv(c)

NextBlock ==
  \/ \E w \in Workers : ReadStep(w)
  \/ \E c \in Callers : BlockStep(c)
  \/ \E s \in Sources : DataArrives(s)
  \/ \E k \in Keys : HandleEvent(k)

\* The worker threads run whenever they can and a blocked recv returns when
\* it can.
FairSpecBlock ==
  /\ InitExec
  /\ [][NextBlock]_vars
  /\ \A w \in Workers : WF_vars(ReadStep(w))
  /\ \A c \in Callers : WF_vars(BlockOnRecv(c))

\* The pool with callers that also stop it.
NextPool ==
  \/ \E w \in Workers : PlainStep(w)
  \/ \E c \in Callers : CallerStep(c)
  \/ \E s \in Sources : DataArrives(s)
  \/ \E k \in Keys : HandleEvent(k)

SpecPool == InitExec /\ [][NextPool]_vars

\* One step of a worker thread whose futures read their stream and spawn, in
\* a pool that is stopped.
SpawningStep(w) ==
  \/ ReadStep(w)
  \/ Enqueue(w)
  \/ BeforeStop(w)

\* A caller that spawns and stops.
StopStep(c) ==
  \/ Spawn(c)
  \/ StopBegin(c)
  \/ StopSend(c)
  \/ StopJoin(c)
  \/ StopJoined(c)

\* The pool whose futures spawn onto the local queues, with callers that also
\* stop it.
NextStop ==
  \/ \E w \in Workers : SpawningStep(w)
  \/ \E c \in Callers : StopStep(c)
  \/ \E s \in Sources : DataArrives(s)
  \/ \E k \in Keys : HandleEvent(k)

SpecStop == InitExec /\ [][NextStop]_vars

\* The worker that holds the future of task t, taken out of its cell.
Holders(t) == {w \in Workers : wcur[w] = t /\ wpc[w] \in {"polling", "reading", "pending", "ready"}}

\* Task t will be looked at again: it is in a queue or in the hands of a
\* worker that has not yet called future.take().
Scheduled(t) ==
  \/ InQueue(G, t)
  \/ \E w \in Workers : InQueue(local[w], t) \/ (wcur[w] = t /\ wpc[w] = "got")

\* C2: a task woken while its poll was still running (its future not yet
\* stored back) is polled again: once its future is back in the cell the task
\* is still scheduled, whatever the number of workers.
C2_NoLostWakeup ==
  \A t \in TaskIds : (owed[t] /\ future[t] = Fut) => Scheduled(t)

\* C3: at any time at most one worker holds, and so polls, the future of a
\* given task.
C3_SinglePoller ==
  \A t \in TaskIds : Cardinality(Holders(t)) <= 1

C3_Witness ==
  \E t \in TaskIds, w1, w2 \in Workers :
    /\ w1 # w2
    /\ wcur[w1] = t /\ wpc[w1] = "reading"
    /\ wcur[w2] = t /\ wpc[w2] = "got"

\* C4: block_on returns Ok only for a future that was polled to completion,
\* and a caller waiting in block_on for a completed future gets Ok.
C4_BlockOn ==
  /\ [](\A c \in Callers : (cdat[c].op = "block_on" /\ cdat[c].res = "Ok") => done[cdat[c].t])
  /\ \A c \in Callers :
       (cpc[c] = "block_wait" /\ done[cdat[c].t]) ~> (cpc[c] = "idle" /\ cdat[c].res = "Ok")

C4_Witness ==
  \E c \in Callers : cdat[c].op = "block_on" /\ cdat[c].res = "Ok" /\ cpc[c] = "idle"

\* C5: the notify channel of a block_on task is signalled exactly once, by
\* the worker that saw Poll::Ready; the task of a spawn never signals.
C5_NotifyOnce ==
  \A t \in TaskIds :
    /\ signals[t] <= 1
    /\ signals[t] = 1 => (done[t] /\ hasNotify[t])
    /\ ~hasNotify[t] => signals[t] = 0
    /\ (done[t] /\ hasNotify[t] /\ ~\E w \in Workers : wcur[w] = t /\ wpc[w] = "ready")
         => signals[t] = 1

C5_Witness ==
  \E t, u \in TaskIds :
    /\ done[t] /\ hasNotify[t] /\ signals[t] = 1
    /\ done[u] /\ ~hasNotify[u] /\ Holders(u) = {}

\* C6: after a stop() has returned Ok, every spawn or block_on returns
\* Err(PoolError::Spawn).
C6_SubmitAfterStop ==
  \A c \in Callers :
    (cdat[c].after /\ cdat[c].op \in {"spawn", "block_on"}) => cdat[c].res = "ErrSpawn"

\* C7: a stop() that returns Ok has joined every worker: all of them have
\* consumed a Stop and exited, and one Stop was sent per worker.
C7_StopJoinsAll ==
  \A c \in Callers :
    (cdat[c].op = "stop" /\ cdat[c].res = "Ok")
      => (stopsSent = NumWorkers /\ \A w \in Workers : wpc[w] = "exited")

\* C8: a stop() called after a stop() has returned Ok returns
\* Err(PoolError::Stop) at once: it sends no Stop and joins no thread.
C8_StopTwice ==
  \A c \in Callers :
    (cdat[c].op = "stop" /\ cdat[c].after)
      => (cdat[c].res = "ErrStop" /\ cpc[c] = "idle" /\ handles = <<>>)

C8_Witness ==
  \E c \in Callers : cdat[c].op = "stop" /\ cdat[c].after /\ cdat[c].res = "ErrStop"



\* C1: IoWaker pool conservation. In every reachable state of any
\* interleaving of register and deregister, the number of wakers in the free
\* queue plus the number of registered sources equals the initial free count
\* (capacity minus the reserved self-wake slot); so once every registered
\* source is deregistered the free count is the initial free count again.
C1_PoolConservation ==
  Len(freeQ) + Cardinality(Registered) = SlabSize - 1

\* A source was registered and deregistered again (the queue was rotated) and
\* nothing is registered: the free count is back at its initial value.
C1_Witness ==
  /\ Registered = {}
  /\ freeQ # InitFreeQ
  /\ Len(freeQ) = Len(InitFreeQ)

(***************************************************************************)
(* aioserver/: one connection of the synchronous server. The main loop     *)
(* (server.rs) accepts it, turns its readable events into jobs and removes *)
(* it; a worker (worker.rs) runs a job: one read, parse_buf, the handler   *)
(* and the write of each response (enhanced_stream.rs).                    *)
(***************************************************************************)
Min(a, b) == IF a < b THEN a ELSE b

\* The head of a request with nh header lines: the request line, the header
\* lines and the empty line.
HeadOf(nh) == LineLen + nh * HdrLen + 2

\* What can be wrong with a request: nothing, its request line, its method
\* (a token other than GET, POST, PUT, DELETE), the name of its first header,
\* the value of its Content-length.
BadKinds == {"none", "line", "method", "header", "length"}

\* A well-formed request: a head of h bytes with nh header lines, with a
\* Content-length header (cl) announcing the b bytes of body that follow, or
\* without one and with no body; close tells whether it carries
\* "Connection: close".
ReqKinds ==
  {r \in [h : {HeadLen}, nh : {2}, bad : {"none"}, cl : BOOLEAN,
          b : {0, SmallBody, BigBody}, close : BOOLEAN] :
     (r.b = 0) = ~r.cl}

Plans == UNION {[1..n -> ReqKinds] : n \in 1..MaxReqs}

ReqLen(r) == r.h + r.b

RECURSIVE TotalLen(_, _, _)
\* The bytes of requests i..j of plan p.
TotalLen(p, i, j) == IF i > j THEN 0 ELSE ReqLen(p[i]) + TotalLen(p, i + 1, j)

\* httparse::Request::parse on the first len bytes of request r, with the
\* array of MAX_HEADERS headers: an error as soon as the wrong byte is there
\* (the end of a bad request line, the first byte of a bad header name, the
\* first byte of a header when the array is full), Partial while the head is
\* unfinished.
httparse(len, r) ==
  IF r.bad = "line" /\ len >= LineLen THEN "Error"
  ELSE IF r.bad = "header" /\ len > LineLen THEN "Error"
  ELSE IF r.nh > MAX_HEADERS /\ len > LineLen + MAX_HEADERS * HdrLen THEN "Error"
  ELSE IF len < r.h THEN "Partial"
  ELSE "Complete"

\* A parse_u8 that forgets the body announced by Content-length.
parse_u8_head(len, r) ==
  LET st == httparse(len, r)
  IN CASE st = "Partial" -> [ok |-> FALSE, n |-> 0, err |-> "UnexpectedEnd"]
       [] st = "Error" -> [ok |-> FALSE, n |-> 0, err |-> "Parse"]
       [] OTHER -> [ok |-> TRUE, n |-> r.h, err |-> "none"]

\* RequestParser::parse_u8 on a buffer of len bytes that begins with the
\* request r: UnexpectedEnd while httparse is Partial, its error otherwise;
\* Method::from_str(..).unwrap() panics on an unknown method; with a
\* Content-length the value must parse and the body must be there too. n is
\* the number of bytes of the request.
parse_u8(len, r) ==
  LET st == httparse(len, r)
  IN CASE st = "Partial" -> [ok |-> FALSE, n |-> 0, err |-> "UnexpectedEnd"]
       [] st = "Error" -> [ok |-> FALSE, n |-> 0, err |-> "Parse"]
       [] OTHER ->
            IF r.bad = "method" THEN [ok |-> FALSE, n |-> 0, err |-> "Panic"]
            ELSE IF ~r.cl THEN [ok |-> TRUE, n |-> r.h, err |-> "none"]
            ELSE IF r.bad = "length"
                 THEN [ok |-> FALSE, n |-> 0, err |-> "LengthParse"]
            ELSE IF len < r.h + r.b
                 THEN [ok |-> FALSE, n |-> 0, err |-> "UnexpectedEnd"]
            ELSE [ok |-> TRUE, n |-> r.h + r.b, err |-> "none"]

\* A parse_buf that returns after the first request.
parse_first(p, len, i, acc) ==
  IF i > Len(p) THEN [out |-> acc, len |-> len, next |-> i, err |-> "none"]
  ELSE LET r == parse_u8(len, p[i])
       IN IF r.ok
          THEN [out |-> Append(acc, i), len |-> len - r.n, next |-> i + 1,
                err |-> "none"]
          ELSE [out |-> acc, len |-> len, next |-> i, err |-> "none"]

RECURSIVE parse_buf_drop(_, _, _, _)
\* A parse_buf that empties the buffer when a request is unfinished.
parse_buf_drop(p, len, i, acc) ==
  IF i > Len(p) THEN [out |-> acc, len |-> len, next |-> i, err |-> "none"]
  ELSE LET r == parse_u8(len, p[i])
       IN IF r.ok
          THEN IF len - r.n = 0
               THEN [out |-> Append(acc, i), len |-> 0, next |-> i + 1,
                     err |-> "none"]
               ELSE parse_buf_drop(p, len - r.n, i + 1, Append(acc, i))
          ELSE IF r.err = "UnexpectedEnd"
          THEN [out |-> acc, len |-> 0, next |-> i, err |-> "none"]
          ELSE [out |-> <<>>, len |-> len, next |-> i, err |-> r.err]

RECURSIVE parse_buf(_, _, _, _)
\* EnhancedStream::parse_buf: parse and split off requests until the buffer
\* is empty or holds an unfinished request. Another error of parse_u8 is
\* returned in place of the requests found so far, which stay split off.
parse_buf(p, len, i, acc) ==
  IF i > Len(p) THEN [out |-> acc, len |-> len, next |-> i, err |-> "none"]
  ELSE LET r == parse_u8(len, p[i])
       IN IF r.ok
          THEN IF len - r.n = 0
               THEN [out |-> Append(acc, i), len |-> 0, next |-> i + 1,
                     err |-> "none"]
               ELSE parse_buf(p, len - r.n, i + 1, Append(acc, i))
          ELSE IF r.err = "UnexpectedEnd"
          THEN [out |-> acc, len |-> len, next |-> i, err |-> "none"]
          ELSE [out |-> <<>>, len |-> len, next |-> i, err |-> r.err]

\* The sizes a segment can have: one byte, a head, half of what is left, a
\* read buffer, all that is left.
SegKinds == 1..5

SegLen(k) ==
  CASE k = 1 -> 1
    [] k = 2 -> HeadLen
    [] k = 3 -> (toSend + 1) \div 2
    [] k = 4 -> DEFAULT_BUF_SIZE
    [] k = 5 -> toSend

\* The client writes a segment; a registered stream becomes readable. The
\* last of the MaxSegs segments is the rest of the plan.
Write(k) ==
  /\ peer = "open"
  /\ cstate # "removed"
  /\ SegLen(k) >= 1 /\ SegLen(k) <= toSend
  /\ segs + 1 < MaxSegs \/ SegLen(k) = toSend
  /\ toSend' = toSend - SegLen(k)
  /\ sock' = sock + SegLen(k)
  /\ segs' = segs + 1
  /\ edge' = IF cstate = "accepted" THEN TRUE ELSE edge
  /\ UNCHANGED <<plan, cstate, jobs, rbuf, nextReq, responses, deleteQ, last>>
  /\ UNCHANGED <<reactorVars, ioVars, execVars, poolVars>>
  /\ UNCHANGED extVars

\* AIOServer::start, SERVER token: accept, register the stream (readable at
\* once if bytes are already there), insert it in the map, send a job.
Accept ==
  /\ spc = "running"
  /\ cstate = "connected"
  /\ cstate' = "accepted"
  /\ edge' = (sock > 0)
  /\ jobs' = jobs + 1
  /\ UNCHANGED <<plan, toSend, segs, sock, rbuf, nextReq, responses, deleteQ, last>>
  /\ UNCHANGED <<reactorVars, ioVars, execVars, poolVars>>
  /\ UNCHANGED extVars

\* AIOServer::start, the stream's token: the event is consumed and a job is
\* sent for the stream found in the map.
StreamEvent ==
  /\ spc = "running"
  /\ edge
  /\ cstate = "accepted"
  /\ edge' = FALSE
  /\ jobs' = jobs + 1
  /\ UNCHANGED <<plan, toSend, segs, sock, cstate, rbuf, nextReq, responses, deleteQ, last>>
  /\ UNCHANGED <<reactorVars, ioVars, execVars, poolVars>>
  /\ UNCHANGED extVars

\* What a job leaves alone when it does not answer a request.
NoAnswer == UNCHANGED <<responses, handled, wfailAt>>

\* Worker::work, one job, taken by a worker thread that is alive. The lock
\* of a poisoned stream panics. EnhancedStream::requests reads once, at most
\* DEFAULT_BUF_SIZE bytes: an error on a reset connection; with no byte to
\* read, EOF on a stream that was shut down or that the client closed and
\* WouldBlock otherwise. Then it parses the buffer: a panic of parse_u8
\* kills the thread that holds the lock, another error is returned. EOF and
\* the errors other than WouldBlock call close_stream. Each request is
\* passed to the handler and answered in turn, the result of the write is
\* dropped, and close_stream is called for each "Connection: close".
Work ==
  /\ jobs > 0
  /\ wdead < NumWorkers
  /\ jobs' = jobs - 1
  /\ LET n == Min(sock, DEFAULT_BUF_SIZE)
         r == parse_buf(plan, rbuf + n, nextReq, <<>>)
         nothing == [pre |-> rbuf, n |-> 0, first |-> nextReq, out |-> <<>>]
     IN IF poisoned
        THEN /\ wdead' = wdead + 1
             /\ NoAnswer
             /\ UNCHANGED <<sock, rbuf, nextReq, deleteQ, last, poisoned>>
        ELSE IF peer = "reset"
        THEN /\ deleteQ' = deleteQ + 1
             /\ last' = nothing
             /\ NoAnswer
             /\ UNCHANGED <<sock, rbuf, nextReq, wdead, poisoned>>
        ELSE IF n = 0
        THEN /\ deleteQ' = IF cstate = "removed" \/ peer = "closed"
                           THEN deleteQ + 1 ELSE deleteQ
             /\ last' = nothing
             /\ NoAnswer
             /\ UNCHANGED <<sock, rbuf, nextReq, wdead, poisoned>>
        ELSE IF r.err = "Panic"
        THEN /\ sock' = sock - n
             /\ rbuf' = r.len
             /\ nextReq' = r.next
             /\ wdead' = wdead + 1
             /\ poisoned' = TRUE
             /\ last' = [pre |-> rbuf, n |-> n, first |-> nextReq, out |-> <<>>]
             /\ NoAnswer
             /\ UNCHANGED deleteQ
        ELSE IF r.err # "none"
        THEN /\ sock' = sock - n
             /\ rbuf' = r.len
             /\ nextReq' = r.next
             /\ deleteQ' = deleteQ + 1
             /\ last' = [pre |-> rbuf, n |-> n, first |-> nextReq, out |-> <<>>]
             /\ NoAnswer
             /\ UNCHANGED <<wdead, poisoned>>
        ELSE /\ sock' = sock - n
             /\ rbuf' = r.len
             /\ nextReq' = r.next
             /\ handled' = handled \o r.out
             /\ responses' = IF wbroken THEN responses ELSE responses \o r.out
             /\ wfailAt' = IF wbroken /\ r.out # <<>> /\ wfailAt = 0
                           THEN Len(handled) + 1 ELSE wfailAt
             /\ deleteQ' = deleteQ + Cardinality({i \in 1..Len(r.out) : plan[r.out[i]].close})
             /\ last' = [pre |-> rbuf, n |-> n, first |-> nextReq, out |-> r.out]
             /\ UNCHANGED <<wdead, poisoned>>
  /\ UNCHANGED <<plan, toSend, segs, edge, cstate>>
  /\ UNCHANGED <<reactorVars, ioVars, execVars, poolVars>>
  /\ UNCHANGED <<pureVars, fineVars, srvVars, peer, wbroken, ctxVars>>

\* A remove_connection that leaves the stream where it is.
RemoveConnectionKeep ==
  /\ deleteQ > 0
  /\ deleteQ' = deleteQ - 1
  /\ UNCHANGED <<plan, toSend, segs, sock, edge, cstate, jobs, rbuf, nextReq>>
  /\ UNCHANGED <<responses, last>>
  /\ UNCHANGED <<reactorVars, ioVars, execVars, poolVars>>
  /\ UNCHANGED extVars

\* AIOServer::start, WAKER token, LoopTask::Close: remove_connection takes
\* the stream out of the map, shuts it down and deregisters it; nothing for
\* an id that is not in the map. The lock of a poisoned stream panics, once
\* the stream is out of the map: the thread of the main loop is gone.
RemoveConnection ==
  /\ spc = "running"
  /\ deleteQ > 0
  /\ deleteQ' = deleteQ - 1
  /\ IF cstate = "accepted" /\ poisoned
     THEN cstate' = "orphaned" /\ edge' = FALSE /\ spc' = "panicked"
     ELSE IF cstate = "accepted"
     THEN cstate' = "removed" /\ edge' = FALSE /\ UNCHANGED spc
     ELSE UNCHANGED <<cstate, edge, spc>>
  /\ UNCHANGED <<plan, toSend, segs, sock, jobs, rbuf, nextReq, responses, last>>
  /\ UNCHANGED <<reactorVars, ioVars, execVars, poolVars>>
  /\ UNCHANGED <<pureVars, errVars, fineVars, started, loopQ, hpc, sjoined, stopQ, dropped, ctxVars>>

\* A client has connected and is about to send its plan.
InitConn ==
  /\ plan \in Plans
  /\ toSend = TotalLen(plan, 1, Len(plan))
  /\ segs = 0
  /\ sock = 0
  /\ edge = FALSE
  /\ cstate = "connected"
  /\ jobs = 0
  /\ rbuf = 0
  /\ nextReq = 1
  /\ responses = <<>>
  /\ deleteQ = 0
  /\ last = NoJob
  /\ NoPure /\ NoErr /\ NoFine /\ NoSrv /\ NoCtx
  /\ freeQ = InitFreeQ
  /\ regKey = [s \in Sources |-> None]
  /\ slots = [k \in Keys |-> None]
  /\ regPanic = FALSE
  /\ ready = [s \in Sources |-> FALSE]
  /\ evt = [k \in Keys |-> FALSE]
  /\ G = <<>>
  /\ local = [w \in Workers |-> <<>>]
  /\ wpc = [w \in Workers |-> "exited"]
  /\ wcur = [w \in Workers |-> None]
  /\ future = [t \in TaskIds |-> Fut]
  /\ hasNotify = [t \in TaskIds |-> FALSE]
  /\ signals = [t \in TaskIds |-> 0]
  /\ done = [t \in TaskIds |-> FALSE]
  /\ owed = [t \in TaskIds |-> FALSE]
  /\ handles = <<>>
  /\ stopsSent = 0
  /\ stopOk = FALSE
  /\ cpc = [c \in Callers |-> "idle"]
  /\ cdat = [c \in Callers |-> NoCall]

NextConn ==
  \/ \E k \in SegKinds : Write(k)
  \/ Accept
  \/ StreamEvent
  \/ Work
  \/ RemoveConnection

SpecConn == InitConn /\ [][NextConn]_vars

\* The sequence <<i, i + 1, ..., j>>.
Range(i, j) == [k \in 1..(j - i + 1) |-> i + k - 1]

\* The last job read, into an empty buffer, exactly the bytes of the N
\* requests that come next.
SingleRead(N) ==
  /\ last.pre = 0
  /\ last.first + N - 1 <= Len(plan)
  /\ last.n = TotalLen(plan, last.first, last.first + N - 1)

\* C9: when N >= 1 well-formed requests arrive back-to-back in a single read,
\* that read iteration extracts exactly these N requests, in arrival order,
\* and exactly their N responses are written, in the same order.
C9_Pipelined ==
  \A N \in 1..MaxReqs :
    SingleRead(N) =>
      /\ last.out = Range(last.first, last.first + N - 1)
      /\ Len(responses) >= N
      /\ SubSeq(responses, Len(responses) - N + 1, Len(responses)) = last.out
      /\ responses = Range(1, last.first + N - 1)

C9_Witness ==
  /\ SingleRead(2)
  /\ plan[1].close
  /\ plan[2].cl
  /\ Len(last.out) = 2

\* Nothing more will happen on the connection: the client has written all
\* its bytes, the poller holds no event, no job and no removal is queued.
Quiescent ==
  /\ cstate # "connected"
  /\ toSend = 0
  /\ ~edge
  /\ jobs = 0
  /\ deleteQ = 0

\* C10: a client that writes one well-formed request, in any segments, gets
\* exactly one response: never more than one, and one once nothing more can
\* happen on the connection.
C10_SplitRequest ==
  Len(plan) = 1 => (Len(responses) <= 1 /\ (Quiescent => Len(responses) = 1))

(***************************************************************************)
(* request/request_parser.rs and http/headers.rs as functions: parse_u8 on *)
(* the first k bytes of a message followed by trailing bytes, and the      *)
(* decision of Worker::work to close on the Connection header.             *)
(***************************************************************************)
\* No reactor, executor or thread pool is running.
NoAsync ==
  /\ freeQ = InitFreeQ
  /\ regKey = [s \in Sources |-> None]
  /\ slots = [k \in Keys |-> None]
  /\ regPanic = FALSE
  /\ ready = [s \in Sources |-> FALSE]
  /\ evt = [k \in Keys |-> FALSE]
  /\ G = <<>>
  /\ local = [w \in Workers |-> <<>>]
  /\ wpc = [w \in Workers |-> "exited"]
  /\ wcur = [w \in Workers |-> None]
  /\ future = [t \in TaskIds |-> Fut]
  /\ hasNotify = [t \in TaskIds |-> FALSE]
  /\ signals = [t \in TaskIds |-> 0]
  /\ done = [t \in TaskIds |-> FALSE]
  /\ owed = [t \in TaskIds |-> FALSE]
  /\ handles = <<>>
  /\ stopsSent = 0
  /\ stopOk = FALSE
  /\ cpc = [c \in Callers |-> "idle"]
  /\ cdat = [c \in Callers |-> NoCall]

\* The numbers of header lines of the messages: none, one, as many as the
\* headers array of parse_u8 holds, one more.
HeaderCounts == {0, 1, MAX_HEADERS, MAX_HEADERS + 1}

\* The well-formed messages: a request line with a known method, nh header
\* lines of which one is Content-length when cl, and the announced body.
Messages ==
  {r \in [h : {HeadOf(nh) : nh \in HeaderCounts}, nh : HeaderCounts,
          bad : {"none"}, cl : BOOLEAN, b : {0, SmallBody}, close : {FALSE}] :
     /\ r.h = HeadOf(r.nh)
     /\ r.cl => r.nh >= 1
     /\ ~r.cl => r.b = 0}

\* parse_u8 is given the first k bytes of message m followed by MaxTrail
\* other bytes.
ParseInputs ==
  {i \in [kind : {"parse"}, m : Messages,
          k : 0..(HeadOf(MAX_HEADERS + 1) + SmallBody + MaxTrail)] :
     i.k <= ReqLen(i.m) + MaxTrail}

\* str::to_ascii_lowercase on the strings of the model.
to_ascii_lowercase(str) ==
  CASE str \in {"Connection", "connection", "CONNECTION"} -> "connection"
    [] str \in {"close", "Close", "CLOSE"} -> "close"
    [] str \in {"Host", "host"} -> "host"
    [] OTHER -> str

\* Headers::set_header: name and value are both lowercased; an existing key
\* is overwritten.
set_header(map, name, value) ==
  [n \in DOMAIN map \cup {to_ascii_lowercase(name)} |->
     IF n = to_ascii_lowercase(name) THEN to_ascii_lowercase(value) ELSE map[n]]

\* Headers::get_header: the value at the lowercased name, as the set of at
\* most one value that an Option is.
get_header(map, name) ==
  IF to_ascii_lowercase(name) \in DOMAIN map
  THEN {map[to_ascii_lowercase(name)]}
  ELSE {}

\* Headers::new.
NewHeaders == [n \in {} |-> ""]

\* Worker::work after the write of a response: close_stream iff the
\* request's headers, filled by parse_u8 with set_header, hold "close" at
\* "Connection".
wants_close(name, value) ==
  get_header(set_header(NewHeaders, name, value), "Connection") = {"close"}

HeaderNames == {"Connection", "connection", "CONNECTION", "Host"}
HeaderValues == {"close", "Close", "CLOSE", "keep-alive"}

\* One header line, as the client sent it.
HeaderInputs == [kind : {"header"}, name : HeaderNames, value : HeaderValues]

\* A sequence of set_header calls on a new Headers, and the name a
\* get_header then asks for.
HeaderCalls ==
  UNION {[1..n -> [name : HeaderNames, value : HeaderValues]] : n \in 0..MaxSets}

GetInputs == [kind : {"get"}, sets : HeaderCalls, name : HeaderNames]

\* The map after the calls, made in order.
RECURSIVE SetHeaders(_, _)
SetHeaders(map, calls) ==
  IF calls = <<>>
  THEN map
  ELSE SetHeaders(set_header(map, Head(calls).name, Head(calls).value),
                  Tail(calls))

(***************************************************************************)
(* router/mod.rs, router/route.rs. A path is the sequence of the parts that *)
(* follow each of its slashes: "/a/{x}" is <<"a", "{x}">>, "/a/" is         *)
(* <<"a", "">>, "/" is <<"">> and the empty string is <<>>.                 *)
(***************************************************************************)
Methods == {"GET", "POST"}
RoutePaths == {<<"a">>, <<"a", "">>, <<"{x}">>, <<"a", "b">>, <<"a", "{x}">>}
ReqPaths == {<<"a">>, <<"a", "">>, <<"b">>, <<"a", "b">>}

\* s.starts_with('{') && s.ends_with('}')
IsParam(s) == s \in {"{x}", "{y}"}

\* route_to_regex: split('/') and one piece of pattern for each part that is
\* not empty, a named group for a parameter; "^/$" when there is none. The
\* regex is kept as the sequence of its pieces.
route_to_regex(path) == SelectSeq(path, LAMBDA s : s # "")

\* Route::new
NewRoute(path, method) == [path |-> route_to_regex(path), method |-> method]

\* str::trim_end_matches('/')
RECURSIVE trim_end_matches(_)
trim_end_matches(path) ==
  IF path # <<>> /\ path[Len(path)] = ""
  THEN trim_end_matches(SubSeq(path, 1, Len(path) - 1))
  ELSE path

\* Regex::is_match of a route's regex on a path: "^/$" matches "/" alone;
\* otherwise part by part, a group matching any part.
regex_is_match(re, path) ==
  IF re = <<>>
  THEN path = <<"">>
  ELSE /\ Len(path) = Len(re)
       /\ \A i \in 1..Len(re) : IsParam(re[i]) \/ re[i] = path[i]

\* Route::is_match
is_match(route, req) ==
  /\ route.method = req.method
  /\ regex_is_match(route.path, trim_end_matches(req.path))

\* Route::parse_request is Some (the captures exist).
parse_request(route, req) ==
  regex_is_match(route.path, trim_end_matches(req.path))

\* Router::new
NewRouter == [routes |-> <<>>, not_found |-> "default_not_found"]

\* Router::add_route: nothing when an equal route (PartialEq for Route: the
\* same regex string and method) is there, else push.
add_route(router, route, handler) ==
  IF \E i \in 1..Len(router.routes) : router.routes[i].route = route
  THEN router
  ELSE [router EXCEPT !.routes = Append(@, [route |-> route, h |-> handler])]

\* What exec ran: the handler of a route, the not-found handler, or the
\* empty_500 of a route whose parse_request is None.
Ran(by, h) == [by |-> by, h |-> h]

\* An exec that takes the last route that matches.
exec_last(router, req) ==
  LET m == {i \in 1..Len(router.routes) : is_match(router.routes[i].route, req)}
  IN  IF m = {}
      THEN Ran(router.not_found, 0)
      ELSE LET i == CHOOSE i \in m : \A j \in m : j <= i
           IN  IF parse_request(router.routes[i].route, req)
               THEN Ran("route", router.routes[i].h)
               ELSE Ran("empty_500", 0)

\* Router::exec: find the first route that is_match, parse_request, handler;
\* not_found when no route matches.
exec(router, req) ==
  LET m == {i \in 1..Len(router.routes) : is_match(router.routes[i].route, req)}
  IN  IF m = {}
      THEN Ran(router.not_found, 0)
      ELSE LET i == CHOOSE i \in m : \A j \in m : i <= j
           IN  IF parse_request(router.routes[i].route, req)
               THEN Ran("route", router.routes[i].h)
               ELSE Ran("empty_500", 0)

\* The routes a program adds to a new router, in order (the handler of the
\* i-th add_route is handler i), and the request it then routes.
RouteAdds ==
  UNION {[1..n -> [path : RoutePaths, method : Methods]] : n \in 0..MaxAdds}

RouteInputs ==
  [kind : {"route"}, adds : RouteAdds, req : [path : ReqPaths, method : Methods]]

\* The router after the first n of the add_route calls.
RECURSIVE AddRoutes(_, _)
AddRoutes(adds, n) ==
  IF n = 0
  THEN NewRouter
  ELSE add_route(AddRoutes(adds, n - 1),
                 NewRoute(adds[n].path, adds[n].method), n)

\* The takes and stores that threads make on one IoWaker's cell, in the
\* order in which the atomic operations take effect: 0 is IoWaker::take, t a
\* set_waker with the waker of task t.
CellOps == UNION {[1..n -> 0..NumTasks] : n \in 0..MaxOps}

CellInputs == [kind : {"cell"}, ops : CellOps]

\* The cell after the first n operations on a cell made by AtomicTake::new.
RECURSIVE CellAfter(_, _)
CellAfter(ops, n) ==
  IF n = 0
  THEN None
  ELSE IF ops[n] = 0
       THEN AtomicTake_take(CellAfter(ops, n - 1)).cell
       ELSE AtomicTake_store(CellAfter(ops, n - 1), ops[n])

\* What the n-th operation, a take, returns.
TakeGot(ops, n) == AtomicTake_take(CellAfter(ops, n - 1)).got

\* Worker::enqueue of task t on a worker whose local queue is q, the injector
\* being g: push onto the local queue; when the push hands the task back,
\* send it on the injector (an error is logged when no receiver is left).
Worker_enqueue(q, g, t, alive) ==
  LET p == LocalQueue_push(q, t)
  IN  IF p.ok
      THEN [local |-> p.q, G |-> g]
      ELSE [local |-> p.q, G |-> IF alive THEN Append(g, t) ELSE g]

\* A local queue of n older tasks. The inputs name it by its length: empty,
\* short, one short of full, full. The new task is NumTasks + 1.
QueueOf(n) == [i \in 1..n |-> 1]

Count(q, t) == Cardinality({i \in 1..Len(q) : q[i] = t})

PushInputs ==
  [kind : {"push"}, n : {0, 1, DEFAULT_SIZE - 1, DEFAULT_SIZE},
   g : {<<>>, <<1>>}, t : {NumTasks + 1}, alive : BOOLEAN]

\* EnhancedStream at the level of bytes. A byte is named by its position in
\* the stream of the connection; the stream carries the requests of a plan,
\* one after the other.
BufKinds ==
  {r \in [h : {HeadLen}, nh : {2}, bad : {"none", "line", "length"},
          cl : BOOLEAN, b : {0, SmallBody}, close : {FALSE}] :
     /\ (r.b = 0) = ~r.cl
     /\ r.bad = "length" => r.cl}

BufPlans == UNION {[1..n -> BufKinds] : n \in 1..MaxReqs}

\* The bytes at positions a..b of the stream.
Bytes(a, b) == [i \in 1..(b - a + 1) |-> a + i - 1]

\* A split_off that keeps the last byte before the split point as well.
split_off_short(v, n) ==
  SubSeq(v, n, Len(v))

\* Vec::split_off(n), as in self.read = self.read.split_off(n): the elements
\* from index n on.
split_off(v, n) ==
  SubSeq(v, n + 1, Len(v))

RECURSIVE parse_buf_read(_, _, _, _)
\* EnhancedStream::parse_buf on the Vec self.read, whose first byte is the
\* first byte of request i of plan p: each request parse_u8 returns takes the
\* first n bytes, the Vec keeps the rest.
parse_buf_read(p, read, i, acc) ==
  IF i > Len(p) THEN [reqs |-> acc, read |-> read, next |-> i, err |-> "none"]
  ELSE LET r == parse_u8(Len(read), p[i])
       IN IF r.ok
          THEN IF split_off(read, r.n) = <<>>
               THEN [reqs |-> Append(acc, SubSeq(read, 1, r.n)), read |-> <<>>,
                     next |-> i + 1, err |-> "none"]
               ELSE parse_buf_read(p, split_off(read, r.n), i + 1,
                                   Append(acc, SubSeq(read, 1, r.n)))
          ELSE IF r.err = "UnexpectedEnd"
          THEN [reqs |-> acc, read |-> read, next |-> i, err |-> "none"]
          ELSE [reqs |-> <<>>, read |-> read, next |-> i, err |-> r.err]

\* The EnhancedStream before any read.
NewStream == [before |-> <<>>, reqs |-> <<>>, read |-> <<>>, next |-> 1,
              first |-> 1, err |-> "none", ran |-> FALSE]

\* EnhancedStream::requests when the read returns the bytes up to position
\* upto of the stream: they are appended to self.read, then parse_buf. st is
\* the stream after the previous call, fed the number of bytes read so far.
requests(p, st, fed, upto) ==
  LET before == st.read \o Bytes(fed + 1, upto)
      r == parse_buf_read(p, before, st.next, <<>>)
  IN [before |-> before, reqs |-> r.reqs, read |-> r.read, next |-> r.next,
      first |-> st.next, err |-> r.err, ran |-> TRUE]

\* The positions where a read can end: around the end of the head and the
\* end of each request of the plan.
Cuts(p) ==
  LET ends == {TotalLen(p, 1, j) : j \in 0..Len(p)}
      heads == {TotalLen(p, 1, j - 1) + p[j].h : j \in 1..Len(p)}
  IN {c \in {e + d : e \in ends \cup heads, d \in {-1, 0, 1}} :
        c >= 1 /\ c <= TotalLen(p, 1, Len(p))}

\* Two successive reads of a connection: up to k1, then up to k2.
BufInputs ==
  UNION {{[kind |-> "buf", p |-> p, k1 |-> c[1], k2 |-> c[2]] :
            c \in {d \in Cuts(p) \X Cuts(p) : d[1] < d[2]}} : p \in BufPlans}

\* The function has not been applied yet.
Pending == [pending |-> TRUE]

InitPure ==
  /\ inp \in ParseInputs \cup HeaderInputs \cup GetInputs \cup RouteInputs
            \cup CellInputs \cup PushInputs \cup BufInputs
  /\ outp = Pending
  /\ NoErr /\ NoFine /\ NoSrv /\ NoSock /\ NoAsync /\ NoCtx

Parse ==
  /\ inp.kind = "parse"
  /\ outp = Pending
  /\ outp' = parse_u8(inp.k, inp.m)
  /\ UNCHANGED <<inp, errVars, fineVars, srvVars, ctxVars>>
  /\ UNCHANGED <<reactorVars, ioVars, execVars, poolVars, connVars>>

ConnectionHeader ==
  /\ inp.kind = "header"
  /\ outp = Pending
  /\ outp' = [close |-> wants_close(inp.name, inp.value)]
  /\ UNCHANGED <<inp, errVars, fineVars, srvVars, ctxVars>>
  /\ UNCHANGED <<reactorVars, ioVars, execVars, poolVars, connVars>>

GetHeader ==
  /\ inp.kind = "get"
  /\ outp = Pending
  /\ outp' = [got |-> get_header(SetHeaders(NewHeaders, inp.sets), inp.name)]
  /\ UNCHANGED <<inp, errVars, fineVars, srvVars, ctxVars>>
  /\ UNCHANGED <<reactorVars, ioVars, execVars, poolVars, connVars>>

Exec ==
  /\ inp.kind = "route"
  /\ outp = Pending
  /\ outp' = [router |-> AddRoutes(inp.adds, Len(inp.adds)),
              ran |-> exec(AddRoutes(inp.adds, Len(inp.adds)), inp.req)]
  /\ UNCHANGED <<inp, errVars, fineVars, srvVars, ctxVars>>
  /\ UNCHANGED <<reactorVars, ioVars, execVars, poolVars, connVars>>

TakeStore ==
  /\ inp.kind = "cell"
  /\ outp = Pending
  /\ outp' = [cell |-> CellAfter(inp.ops, Len(inp.ops)),
              gots |-> [n \in 1..Len(inp.ops) |->
                          IF inp.ops[n] = 0 THEN TakeGot(inp.ops, n) ELSE None]]
  /\ UNCHANGED <<inp, errVars, fineVars, srvVars, ctxVars>>
  /\ UNCHANGED <<reactorVars, ioVars, execVars, poolVars, connVars>>

EnqueueTask ==
  /\ inp.kind = "push"
  /\ outp = Pending
  /\ LET r == Worker_enqueue(QueueOf(inp.n), inp.g, inp.t, inp.alive)
     IN  outp' = [G |-> r.G,
                  len |-> Len(r.local),
                  same |-> r.local = QueueOf(inp.n),
                  appended |-> r.local = Append(QueueOf(inp.n), inp.t),
                  held |-> Count(r.local, inp.t)]
  /\ UNCHANGED <<inp, errVars, fineVars, srvVars, ctxVars>>
  /\ UNCHANGED <<reactorVars, ioVars, execVars, poolVars, connVars>>

\* requests() on the first read and, unless it returned an error (the
\* connection is closed then), on the second.
ReadTwice ==
  /\ inp.kind = "buf"
  /\ outp = Pending
  /\ LET c1 == requests(inp.p, NewStream, 0, inp.k1)
     IN  outp' = [c1 |-> c1,
                  c2 |-> IF c1.err = "none"
                         THEN requests(inp.p, c1, inp.k1, inp.k2)
                         ELSE NewStream]
  /\ UNCHANGED <<inp, errVars, fineVars, srvVars, ctxVars>>
  /\ UNCHANGED <<reactorVars, ioVars, execVars, poolVars, connVars>>

NextPure ==
  \/ ReadTwice
  \/ EnqueueTask
  \/ Parse
  \/ ConnectionHeader
  \/ GetHeader
  \/ Exec
  \/ TakeStore

SpecPure == InitPure /\ [][NextPure]_vars

\* parse_u8 has been applied to a prefix of a message.
Parsed == outp # Pending /\ inp.kind = "parse"

\* NeedMore on every proper prefix, the request and the length of the
\* message from there on.
ParserLaw ==
  IF inp.k < ReqLen(inp.m)
  THEN ~outp.ok /\ outp.err = "UnexpectedEnd"
  ELSE outp.ok /\ outp.n = ReqLen(inp.m)

\* C11 as stated: for every well-formed message of length L and every k,
\* parse_u8 on the first k bytes returns NeedMore when k < L and the request
\* with a consumed count of L when k >= L.
C11_ParserLaws == Parsed => ParserLaw

\* C11, amended: the parser laws hold for every well-formed message with at
\* most MAX_HEADERS header lines; with more, parse_u8 returns a parse error
\* once the first byte of header MAX_HEADERS + 1 is in the prefix, and it
\* never reports a consumed count other than the length of the message.
C11_ParserLawsUpTo64 ==
  Parsed =>
    /\ inp.m.nh <= MAX_HEADERS => ParserLaw
    /\ inp.m.nh > MAX_HEADERS =>
         /\ ~outp.ok
         /\ outp.err = (IF inp.k > LineLen + MAX_HEADERS * HdrLen
                        THEN "Parse" ELSE "UnexpectedEnd")
    /\ outp.ok => outp.n = ReqLen(inp.m)

\* A message with a full array of headers and a body, followed by trailing
\* bytes, has been parsed.
C11_Witness ==
  /\ Parsed
  /\ inp.m.nh = MAX_HEADERS /\ inp.m.cl /\ inp.m.b = SmallBody
  /\ inp.k > ReqLen(inp.m)
  /\ outp.ok

(***************************************************************************)
(* aioserver/: "Connection: close". The main loop polls for ever and is    *)
(* woken for each LoopTask, so a queued Close is handled in the end.       *)
(***************************************************************************)
FairSpecConn == SpecConn /\ WF_vars(RemoveConnection)

\* The response to a request that carries "Connection: close" is written.
CloseAnswered == \E j \in 1..Len(responses) : plan[responses[j]].close

\* remove_connection has shut the socket down, taken the stream out of the
\* map and deregistered it.
Removed == cstate = "removed"

C13_NothingAfterClose ==
  \A j \in 1..Len(responses) :
    \A i \in 1..(j - 1) : ~plan[responses[i]].close

\* C14: the Connection header closes the connection only when its name
\* matches case-insensitively and its value, as the client sent it, is
\* exactly "close".
C14_ExactClose ==
  (outp # Pending /\ inp.kind = "header") =>
    (outp.close <=>
       (to_ascii_lowercase(inp.name) = "connection" /\ inp.value = "close"))

(***************************************************************************)
(* aioserver/: one connection whose client may send malformed requests,    *)
(* close or reset the connection, or stop taking the responses.            *)
(***************************************************************************)
\* The requests of such a client: as ReqKinds, well-formed or with one
\* thing wrong; a bad Content-length needs the header.
ErrKinds ==
  {r \in [h : {HeadLen}, nh : {2}, bad : BadKinds, cl : BOOLEAN,
          b : {0, SmallBody}, close : BOOLEAN] :
     /\ (r.b = 0) = ~r.cl
     /\ r.bad = "length" => r.cl}

ErrPlans == UNION {[1..n -> ErrKinds] : n \in 1..MaxReqs}

\* The client closes the connection: the stream becomes readable, reads
\* return what is left and then 0.
ClientClose ==
  /\ peer = "open"
  /\ peer' = "closed"
  /\ edge' = IF cstate = "accepted" THEN TRUE ELSE edge
  /\ UNCHANGED <<wbroken, wdead, poisoned, handled, wfailAt>>
  /\ UNCHANGED <<plan, toSend, segs, sock, cstate, jobs, rbuf, nextReq>>
  /\ UNCHANGED <<responses, deleteQ, last>>
  /\ UNCHANGED <<reactorVars, ioVars, execVars, poolVars>>
  /\ UNCHANGED <<pureVars, fineVars, srvVars, ctxVars>>

\* The client resets the connection: the bytes in the socket are lost and
\* reads fail with an error that is not WouldBlock.
ClientReset ==
  /\ peer = "open"
  /\ peer' = "reset"
  /\ sock' = 0
  /\ edge' = IF cstate = "accepted" THEN TRUE ELSE edge
  /\ UNCHANGED <<wbroken, wdead, poisoned, handled, wfailAt>>
  /\ UNCHANGED <<plan, toSend, segs, cstate, jobs, rbuf, nextReq>>
  /\ UNCHANGED <<responses, deleteQ, last>>
  /\ UNCHANGED <<reactorVars, ioVars, execVars, poolVars>>
  /\ UNCHANGED <<pureVars, fineVars, srvVars, ctxVars>>

\* From now on the writes on the stream fail: the client no longer reads
\* and the send buffer of the non-blocking socket is full, or it has shut
\* its reading side down.
WriteBreaks ==
  /\ ~wbroken
  /\ wbroken' = TRUE
  /\ UNCHANGED <<peer, wdead, poisoned, handled, wfailAt>>
  /\ UNCHANGED connVars
  /\ UNCHANGED <<reactorVars, ioVars, execVars, poolVars>>
  /\ UNCHANGED <<pureVars, fineVars, srvVars, ctxVars>>

InitConnErr ==
  /\ plan \in ErrPlans
  /\ toSend = TotalLen(plan, 1, Len(plan))
  /\ segs = 0
  /\ sock = 0
  /\ edge = FALSE
  /\ cstate = "connected"
  /\ jobs = 0
  /\ rbuf = 0
  /\ nextReq = 1
  /\ responses = <<>>
  /\ deleteQ = 0
  /\ last = NoJob
  /\ NoPure /\ NoErr /\ NoFine /\ NoSrv /\ NoAsync /\ NoCtx

NextConnErr ==
  \/ NextConn
  \/ ClientClose
  \/ ClientReset
  \/ WriteBreaks

SpecConnErr == InitConnErr /\ [][NextConnErr]_vars

\* C15: an error of the write of a response ends the connection: no request
\* of the connection is passed to the handler after the request whose
\* response could not be written.
C15_WriteErrorCloses == wfailAt > 0 => Len(handled) = wfailAt

\* What the read of the next job returns, from the state of the socket: an
\* error on a reset connection; 0 when there is no byte and the stream was
\* shut down or closed by the client; WouldBlock when there is no byte
\* otherwise; else the bytes.
ReadResult ==
  IF peer = "reset" THEN "error"
  ELSE IF sock > 0 THEN "bytes"
  ELSE IF cstate = "removed" \/ peer = "closed" THEN "eof"
  ELSE "wouldblock"

\* The buffer after the read of the next job.
AfterRead == rbuf + Min(sock, DEFAULT_BUF_SIZE)

\* parse_u8 finds the first request of the buffer unfinished after the read.
NeedMore ==
  /\ ReadResult = "bytes"
  /\ nextReq <= Len(plan)
  /\ parse_u8(AfterRead, plan[nextReq]).err = "UnexpectedEnd"

\* parse_buf returns an error after the read.
ParseFails ==
  /\ ReadResult = "bytes"
  /\ parse_buf(plan, AfterRead, nextReq, <<>>).err \in {"Parse", "LengthParse"}

\* A worker has locked the stream and runs a job on it.
JobRuns == jobs' = jobs - 1 /\ ~poisoned

C17_MalformedOnlyCloses == wdead = 0 /\ ~poisoned /\ spc = "running"

(***************************************************************************)
(* aioserver/worker.rs: the worker threads of the WorkerPool, one step at  *)
(* a time, on the jobs of one connection.                                  *)
(***************************************************************************)
\* What the steps of a worker leave alone.
WorkerFrame ==
  /\ UNCHANGED <<plan, toSend, segs, edge, cstate, last>>
  /\ UNCHANGED <<reactorVars, ioVars, execVars, poolVars>>
  /\ UNCHANGED <<pureVars, errVars, srvVars, ctxVars>>

\* Worker::work: recv on the job channel returned a Job::Stream.
TakeJob(w) ==
  /\ jpc[w] = "idle"
  /\ jobs > 0
  /\ jobs' = jobs - 1
  /\ jpc' = [jpc EXCEPT ![w] = "lock"]
  /\ UNCHANGED <<sock, rbuf, nextReq, responses, deleteQ, jreqs, lockedBy>>
  /\ WorkerFrame

\* A lock of the stream that does not wait for its holder.
LockStreamFree(w) ==
  /\ jpc[w] = "lock"
  /\ lockedBy' = w
  /\ jpc' = [jpc EXCEPT ![w] = "read"]
  /\ UNCHANGED <<sock, jobs, rbuf, nextReq, responses, deleteQ, jreqs>>
  /\ WorkerFrame

\* Worker::work: lock.lock() returns once no other thread holds the Mutex
\* of the stream.
LockStream(w) ==
  /\ jpc[w] = "lock"
  /\ lockedBy = None
  /\ lockedBy' = w
  /\ jpc' = [jpc EXCEPT ![w] = "read"]
  /\ UNCHANGED <<sock, jobs, rbuf, nextReq, responses, deleteQ, jreqs>>
  /\ WorkerFrame

\* Worker::work: stream.requests(). With no request to answer the loop
\* continues and the guard of the Mutex is dropped.
ReadParse(w) ==
  /\ jpc[w] = "read"
  /\ LET n == Min(sock, DEFAULT_BUF_SIZE)
         r == parse_buf(plan, rbuf + n, nextReq, <<>>)
     IN IF n = 0
        THEN /\ deleteQ' = IF cstate = "removed" THEN deleteQ + 1 ELSE deleteQ
             /\ jpc' = [jpc EXCEPT ![w] = "idle"]
             /\ lockedBy' = None
             /\ UNCHANGED <<sock, rbuf, nextReq, jreqs>>
        ELSE /\ sock' = sock - n
             /\ rbuf' = r.len
             /\ nextReq' = r.next
             /\ jreqs' = [jreqs EXCEPT ![w] = r.out]
             /\ jpc' = [jpc EXCEPT ![w] = IF r.out = <<>> THEN "idle" ELSE "respond"]
             /\ lockedBy' = IF r.out = <<>> THEN None ELSE lockedBy
             /\ UNCHANGED deleteQ
  /\ UNCHANGED <<jobs, responses>>
  /\ WorkerFrame

\* Worker::work, one turn of `for request in requests`: the handler, the
\* write of the response, close_stream on "Connection: close". After the
\* last request the guard of the Mutex is dropped.
Respond(w) ==
  /\ jpc[w] = "respond"
  /\ LET i == Head(jreqs[w])
         rest == Tail(jreqs[w])
     IN /\ handled' = Append(handled, i)
        /\ responses' = Append(responses, i)
        /\ deleteQ' = IF plan[i].close THEN deleteQ + 1 ELSE deleteQ
        /\ jreqs' = [jreqs EXCEPT ![w] = rest]
        /\ jpc' = [jpc EXCEPT ![w] = IF rest = <<>> THEN "idle" ELSE "respond"]
        /\ lockedBy' = IF rest = <<>> THEN None ELSE lockedBy
  /\ UNCHANGED <<sock, jobs, rbuf, nextReq>>
  /\ UNCHANGED <<plan, toSend, segs, edge, cstate, last>>
  /\ UNCHANGED <<reactorVars, ioVars, execVars, poolVars>>
  /\ UNCHANGED <<pureVars, srvVars, peer, wbroken, wdead, poisoned, wfailAt, ctxVars>>

NextWorkers ==
  \/ \E k \in SegKinds : Write(k)
  \/ Accept
  \/ StreamEvent
  \/ RemoveConnection
  \/ \E w \in Workers : TakeJob(w)
  \/ \E w \in Workers : LockStream(w)
  \/ \E w \in Workers : ReadParse(w)
  \/ \E w \in Workers : Respond(w)

SpecWorkers == InitConn /\ [][NextWorkers]_vars

\* The workers that are between the lock of the stream and its release.
InStream == {w \in Workers : jpc[w] \in {"read", "respond"}}

\* C18: the requests of a connection are passed to the handler and answered
\* in the order of their arrival, whichever workers take the jobs, and at
\* most one worker at a time uses the stream, the one that holds its lock.
C18_InOrderOneWorker ==
  /\ handled = Range(1, Len(handled))
  /\ responses = Range(1, Len(responses))
  /\ Cardinality(InStream) <= 1
  /\ \A w \in InStream : lockedBy = w

\* Two jobs of the connection are held by two workers: the first request
\* is answered, one worker is about to answer the second while the other
\* waits for the lock.
C18_Witness ==
  \E w, v \in Workers :
    /\ jpc[w] = "respond"
    /\ jpc[v] = "lock"
    /\ Len(responses) = 1
    /\ Head(jreqs[w]) = 2

(***************************************************************************)
(* aioserver/server.rs: the life of the server. AIOServer::start runs in a *)
(* thread of its own; other threads call ready() and shutdown() on clones  *)
(* of the ServerHandle.                                                    *)
(***************************************************************************)
\* What the steps of the server's life leave alone.
ServerFrame ==
  /\ UNCHANGED <<reactorVars, ioVars, execVars, poolVars, connVars>>
  /\ UNCHANGED <<pureVars, errVars, jreqs, lockedBy, dropped, ctxVars>>

\* AIOServer::start: the listener is registered with the poll.
StartRegister ==
  /\ spc = "new"
  /\ spc' = "registered"
  /\ UNCHANGED <<started, loopQ, hpc, sjoined, stopQ, jpc>>
  /\ ServerFrame

\* AIOServer::start: self.pool.start() spawns the worker threads.
StartPool ==
  /\ spc = "registered"
  /\ spc' = "pool_started"
  /\ jpc' = [w \in Workers |-> "idle"]
  /\ UNCHANGED <<started, loopQ, hpc, sjoined, stopQ>>
  /\ ServerFrame

\* AIOServer::start: self.handle.set_ready(true), then the loop.
StartReady ==
  /\ spc = "pool_started"
  /\ spc' = "running"
  /\ started' = TRUE
  /\ UNCHANGED <<loopQ, hpc, sjoined, stopQ, jpc>>
  /\ ServerFrame

\* ServerHandle::ready is called: with the lock, it returns if the flag is
\* set and waits on the Condvar if not.
Ready(c) ==
  /\ hpc[c] = "idle"
  /\ hpc' = [hpc EXCEPT ![c] = IF started THEN "ready_done" ELSE "ready_wait"]
  /\ UNCHANGED <<spc, started, loopQ, sjoined, stopQ, jpc>>
  /\ ServerFrame

\* ServerHandle::ready: the waiting thread has the lock again and finds the
\* flag set.
ReadyReturn(c) ==
  /\ hpc[c] = "ready_wait"
  /\ started
  /\ hpc' = [hpc EXCEPT ![c] = "ready_done"]
  /\ UNCHANGED <<spc, started, loopQ, sjoined, stopQ, jpc>>
  /\ ServerFrame

\* ServerHandle::shutdown is called, by a thread that is not in ready():
\* LoopTask::Shutdown is sent. The call is on a running server when the
\* flag is set. Once the Receiver is dropped the send fails and its unwrap
\* panics.
Shutdown(c) ==
  /\ hpc[c] \in {"idle", "ready_done"}
  /\ loopQ' = IF dropped THEN loopQ ELSE loopQ + 1
  /\ hpc' = [hpc EXCEPT ![c] = IF dropped THEN "shutdown_panic"
                              ELSE IF started THEN "shutdown_wait"
                              ELSE "shutdown_early"]
  /\ UNCHANGED <<spc, started, sjoined, stopQ, jpc>>
  /\ ServerFrame

\* ServerHandle::shutdown: with the lock, the thread finds the flag clear
\* and returns.
ShutdownReturn(c) ==
  /\ hpc[c] \in {"shutdown_wait", "shutdown_early"}
  /\ ~started
  /\ hpc' = [hpc EXCEPT ![c] = IF hpc[c] = "shutdown_wait"
                              THEN "shutdown_done" ELSE "shutdown_done_early"]
  /\ UNCHANGED <<spc, started, loopQ, sjoined, stopQ, jpc>>
  /\ ServerFrame

\* AIOServer::start, WAKER token, LoopTask::Shutdown: self.pool.join()
\* begins and sends a Job::Stop for each worker thread.
LoopShutdown ==
  /\ spc = "running"
  /\ loopQ > 0
  /\ loopQ' = loopQ - 1
  /\ spc' = "joining"
  /\ stopQ' = NumWorkers
  /\ UNCHANGED <<started, hpc, sjoined, jpc>>
  /\ ServerFrame

\* Worker::work: recv on the job channel returned Job::Stop, the thread
\* ends.
WorkerStop(w) ==
  /\ jpc[w] = "idle"
  /\ stopQ > 0
  /\ stopQ' = stopQ - 1
  /\ jpc' = [jpc EXCEPT ![w] = "exited"]
  /\ UNCHANGED <<spc, started, loopQ, hpc, sjoined>>
  /\ ServerFrame

\* WorkerPool::join: join.join() returns for the next handle, whose thread
\* has ended.
PoolJoin ==
  /\ spc = "joining"
  /\ sjoined < NumWorkers
  /\ jpc[sjoined + 1] = "exited"
  /\ sjoined' = sjoined + 1
  /\ UNCHANGED <<spc, started, loopQ, hpc, stopQ, jpc>>
  /\ ServerFrame

\* A loop that clears the flag and returns without the end of the join.
LoopExitEarly ==
  /\ spc = "joining"
  /\ started' = FALSE
  /\ spc' = "exited"
  /\ UNCHANGED <<loopQ, hpc, sjoined, stopQ, jpc>>
  /\ ServerFrame

\* AIOServer::start, LoopTask::Shutdown: once self.pool.join() is over,
\* self.handle.set_ready(false) and the return out of the loop.
LoopExit ==
  /\ spc = "joining"
  /\ sjoined = NumWorkers
  /\ started' = FALSE
  /\ spc' = "exited"
  /\ UNCHANGED <<loopQ, hpc, sjoined, stopQ, jpc>>
  /\ ServerFrame

\* The thread that ran start() drops the server: Drop for AIOServer calls
\* shutdown(), which sends a LoopTask::Shutdown and finds the flag clear;
\* then the fields are dropped, the Receiver among them.
ServerDrop ==
  /\ spc = "exited"
  /\ ~dropped
  /\ dropped' = TRUE
  /\ loopQ' = loopQ + 1
  /\ UNCHANGED <<spc, started, hpc, sjoined, stopQ, jpc>>
  /\ UNCHANGED <<reactorVars, ioVars, execVars, poolVars, connVars>>
  /\ UNCHANGED <<pureVars, errVars, jreqs, lockedBy, ctxVars>>

\* AIOServer::new is done and start not yet called; no client connects.
InitServer ==
  /\ spc = "new"
  /\ started = FALSE
  /\ loopQ = 0
  /\ hpc = [c \in Callers |-> "idle"]
  /\ sjoined = 0
  /\ stopQ = 0
  /\ dropped = FALSE
  /\ jpc = [w \in Workers |-> "unborn"]
  /\ jreqs = [w \in Workers |-> <<>>]
  /\ lockedBy = None
  /\ NoPure /\ NoErr /\ NoSock /\ NoAsync /\ NoCtx

LoopStep ==
  \/ StartRegister
  \/ StartPool
  \/ StartReady
  \/ LoopShutdown
  \/ PoolJoin
  \/ LoopExit
  \/ ServerDrop

NextServer ==
  \/ LoopStep
  \/ \E w \in Workers : WorkerStop(w)
  \/ \E c \in Callers : Ready(c)
  \/ \E c \in Callers : ReadyReturn(c)
  \/ \E c \in Callers : Shutdown(c)
  \/ \E c \in Callers : ShutdownReturn(c)

SpecServer == InitServer /\ [][NextServer]_vars

\* Every thread that can take a step takes one in the end: the thread of
\* start, the workers, and the threads that wait on the Condvar, which
\* notify_all wakes.
FairSpecServer ==
  /\ SpecServer
  /\ WF_vars(LoopStep)
  /\ \A w \in Workers : WF_vars(WorkerStop(w))
  /\ \A c \in Callers : WF_vars(ReadyReturn(c))
  /\ \A c \in Callers : WF_vars(ShutdownReturn(c))

\* start() has registered the listener, started the workers and set the
\* flag, and has not cleared it.
LoopStarted == started /\ spc \in {"running", "joining"}

\* ready() returns, by a step of caller c, only while the loop is started.
ReadyOnlyStarted ==
  [][\A c \in Callers :
       (hpc[c] # "ready_done" /\ hpc'[c] = "ready_done") => LoopStarted]_vars

\* C19: ready() never returns before start() has registered the
\* listener, started the workers and set the ready flag, and a ready() that
\* waits does return once that has happened.
C19_ReadyReturns ==
  /\ ReadyOnlyStarted
  /\ \A c \in Callers :
       (hpc[c] = "ready_wait" /\ started) ~> (hpc[c] = "ready_done")

\* C20: a shutdown() that was called on a running server returns only when
\* the loop has exited: every worker is joined and the flag is clear.
C20_ShutdownAfterExit ==
  \A c \in Callers :
    hpc[c] = "shutdown_done" =>
      spc = "exited" /\ sjoined = NumWorkers /\ ~started

\* A shutdown() called on a running server has returned.
C20_Witness == \E c \in Callers : hpc[c] = "shutdown_done"

(***************************************************************************)
(* aioserver/server.rs: the life of the server with a client. The listener *)
(* is bound by AIOServer::new, so the client is connected, and may have    *)
(* written, before start() polls. The order of the events of one poll is   *)
(* not fixed: with a connection and a Shutdown pending, either comes first.*)
(***************************************************************************)
InitServerConn ==
  /\ plan \in {p \in Plans : Len(p) = 1 /\ p[1].b = 0}
  /\ toSend = TotalLen(plan, 1, Len(plan))
  /\ segs = 0
  /\ sock = 0
  /\ edge = FALSE
  /\ cstate = "connected"
  /\ jobs = 0
  /\ rbuf = 0
  /\ nextReq = 1
  /\ responses = <<>>
  /\ deleteQ = 0
  /\ last = NoJob
  /\ spc = "new"
  /\ started = FALSE
  /\ loopQ = 0
  /\ hpc = [c \in Callers |-> "idle"]
  /\ sjoined = 0
  /\ stopQ = 0
  /\ dropped = FALSE
  /\ jpc = [w \in Workers |-> "unborn"]
  /\ jreqs = [w \in Workers |-> <<>>]
  /\ lockedBy = None
  /\ NoPure /\ NoErr /\ NoAsync /\ NoCtx

NextServerConn ==
  \/ NextServer
  \/ \E k \in SegKinds : Write(k)
  \/ Accept
  \/ StreamEvent

SpecServerConn == InitServerConn /\ [][NextServerConn]_vars

\* A call of shutdown() has returned.
ShutdownReturned ==
  \E c \in Callers : hpc[c] \in {"shutdown_done", "shutdown_done_early"}

\* C21: once a shutdown() has returned the server accepts no connection
\* and sends no job to the workers.
C21_NothingAfterShutdown ==
  [][ShutdownReturned =>
       /\ ~(cstate = "connected" /\ cstate' = "accepted")
       /\ jobs' <= jobs]_vars

\* C22: a shutdown() called while another call of shutdown() is still in
\* progress returns like any other: it does not end in a panic.
C22_ConcurrentShutdowns ==
  \A c, d \in Callers :
    hpc[c] = "shutdown_panic" => hpc[d] # "shutdown_wait"

(***************************************************************************)
(* io/reactor.rs: the pool of IoWakers and the routing of events.          *)
(***************************************************************************)
\* C23: when capacity - 1 sources are registered, a register returns no
\* waker and registers no source: no source becomes registered, and the
\* step in which a register fails finds the free queue empty and leaves the
\* free queue, the registrations and the slots as they are.
C23_RegisterFails ==
  [][/\ Cardinality(Registered) = SlabSize - 1 =>
          \A s \in Sources : regKey[s] = None => regKey'[s] = None
     /\ (~regPanic /\ regPanic') =>
          /\ freeQ = <<>>
          /\ Cardinality(Registered) = SlabSize - 1
          /\ UNCHANGED <<freeQ, regKey, slots>>]_vars

\* A register has failed with every waker of the pool in use.
C23_Witness ==
  /\ regPanic
  /\ Cardinality(Registered) = SlabSize - 1
  /\ freeQ = <<>>

\* The keys in the free queue and the keys held by registered sources.
FreeKeys == {freeQ[i] : i \in 1..Len(freeQ)}
HeldKeys == {regKey[s] : s \in Registered}

\* C24: the slab has a waker at each of its keys; the free queue starts as
\* the keys 1..capacity-1, each once; and whatever is registered and
\* deregistered, key 0 is never in the free queue, hence never returned by
\* register, no key is twice in the queue or both free and held, and no two
\* registered sources hold the same key.
C24_ReservedSlot ==
  /\ freeQ = KeysFrom(1, SlabSize - 1)
  /\ [](/\ DOMAIN slots = 0..(SlabSize - 1)
        /\ waker_token \notin FreeKeys \cup HeldKeys
        /\ Cardinality(FreeKeys) = Len(freeQ)
        /\ FreeKeys \cap HeldKeys = {}
        /\ \A s, t \in Registered : regKey[s] = regKey[t] => s = t)

\* The keys went round: the source that was registered last holds the key
\* that the first source was given at first.
C24_Witness ==
  /\ regKey[NumSources] = 1
  /\ regKey[1] = SlabSize - 1
  /\ freeQ = <<>>

(***************************************************************************)
(* io/context.rs, io/tcp_stream.rs, io/tcp_listener.rs: the thread-local   *)
(* runtime context and the adapters that register with the reactor through *)
(* it. TcpStream and TcpListener are built and dropped by the same code, so *)
(* one pair of actions stands for both.                                    *)
(***************************************************************************)
\* The thread exists: it is a thread of the program, or the worker of a pool
\* that was built.
Live(t) == t <= NumThreads \/ t - NumThreads <= reactors

CtxFrame ==
  /\ UNCHANGED <<polls, spawned, tokVars>>
  /\ UNCHANGED <<reactorVars, ioVars, execVars, poolVars, connVars>>
  /\ UNCHANGED <<pureVars, errVars, fineVars, srvVars>>

\* context::start on thread t: a new Reactor, set_handle of its handle, a new
\* pool whose worker runs set_pool and set_handle in after_start, set_pool.
\* Nothing looks at what the thread-locals held before: replace overwrites.
ContextStart(t) ==
  /\ Live(t)
  /\ reactors < MaxStarts
  /\ reactors' = reactors + 1
  /\ pools' = [pools EXCEPT ![reactors + 1] = InitFreeQ]
  /\ HANDLE' = [HANDLE EXCEPT ![t] = reactors + 1,
                              ![NumThreads + reactors + 1] = reactors + 1]
  /\ EXECUTOR' = [EXECUTOR EXCEPT ![t] = reactors + 1,
                                  ![NumThreads + reactors + 1] = reactors + 1]
  /\ UNCHANGED adp
  /\ CtxFrame

\* TcpStream::from_stream / TcpListener::bind on thread t: context::handle()
\* (expect: a panic when it is None), then Handle::register of the source,
\* which takes the head of the free queue of the handle's reactor (a panic
\* when it is empty). The adapter keeps the waker.
FromStream(s, t) ==
  /\ Live(t)
  /\ adp[s].st = "none"
  /\ HANDLE[t] # None
  /\ pools[HANDLE[t]] # <<>>
  /\ adp' = [adp EXCEPT ![s] = [st |-> "live", r |-> HANDLE[t],
                                key |-> Head(pools[HANDLE[t]])]]
  /\ pools' = [pools EXCEPT ![HANDLE[t]] = Tail(@)]
  /\ UNCHANGED <<HANDLE, EXECUTOR, reactors>>
  /\ CtxFrame

\* Drop for TcpStream / TcpListener on thread t. context::handle() is None:
\* return. Otherwise Handle::deregister: registry.deregister(source).unwrap()
\* and then the send of the waker on the handle's id_sender. A registry other
\* than the one the source was registered with answers with an error, so the
\* unwrap panics before the send.
DropStream(s, t) ==
  /\ Live(t)
  /\ adp[s].st = "live"
  /\ adp' = [adp EXCEPT ![s].st = "dropped"]
  /\ pools' = IF HANDLE[t] = adp[s].r
                 THEN [pools EXCEPT ![adp[s].r] = Append(@, adp[s].key)]
                 ELSE pools
  /\ UNCHANGED <<HANDLE, EXECUTOR, reactors>>
  /\ CtxFrame

\* The thread-local WORKER. context::set_worker is its only writer and no
\* code calls it: the threads ThreadPoolBuilder::build spawns run the
\* after_start hook (set_pool, set_handle) and then receive from the injector.
WORKER == [t \in Threads |-> None]

\* context::spawn on thread t: Worker::enqueue on the thread's WORKER when
\* there is one (the task goes onto that worker's local queue, which is far
\* from full), else PoolHandle::spawn on the thread's EXECUTOR (the task goes
\* onto that pool's injector), else a panic.
ContextSpawn(t) ==
  /\ Live(t)
  /\ Len(spawned) < MaxQueue
  /\ WORKER[t] # None \/ EXECUTOR[t] # None
  /\ spawned' = Append(spawned,
                       IF WORKER[t] # None
                       THEN [by |-> t, to |-> "local", q |-> WORKER[t]]
                       ELSE [by |-> t, to |-> "global", q |-> EXECUTOR[t]])
  /\ UNCHANGED <<HANDLE, EXECUTOR, reactors, pools, adp, polls, tokVars>>
  /\ UNCHANGED <<reactorVars, ioVars, execVars, poolVars, connVars>>
  /\ UNCHANGED <<pureVars, errVars, fineVars, srvVars>>

InitContext ==
  /\ NoCtx
  /\ NoPure /\ NoErr /\ NoFine /\ NoSrv /\ NoSock /\ NoAsync

NextContext ==
  \/ \E t \in Threads : ContextStart(t)
  \/ \E s \in Sources, t \in Threads : FromStream(s, t)
  \/ \E s \in Sources, t \in Threads : DropStream(s, t)
  \/ \E t \in Threads : ContextSpawn(t)

SpecContext == InitContext /\ [][NextContext]_vars

(***************************************************************************)
(* aioserver/id_generator.rs, aioserver/server.rs: the tokens of the       *)
(* connections. The main loop gives every connection it accepts an id of   *)
(* its IdGenerator, registers it under Token(id) and keeps it in a map;    *)
(* a Close task takes it out again.                                        *)
(***************************************************************************)
\* IdGenerator::new(start).
IdGenerator_new(start) == [used |-> {}, pos |-> start]

\* An id() that returns pos and records nothing.
IdGenerator_id_forget(g) ==
  [id |-> g.pos, gen |-> g]

RECURSIVE IdGenerator_id(_)
\* IdGenerator::id: step pos over the ids in use, insert pos and return it,
\* leaving pos one further.
IdGenerator_id(g) ==
  IF g.pos \in g.used
  THEN IdGenerator_id([g EXCEPT !.pos = @ + 1])
  ELSE [id |-> g.pos, gen |-> [used |-> g.used \cup {g.pos}, pos |-> g.pos + 1]]

\* IdGenerator::remove.
IdGenerator_remove(g, id) == [g EXCEPT !.used = @ \ {id}]

TokFrame ==
  /\ UNCHANGED <<HANDLE, EXECUTOR, reactors, pools, adp, polls, spawned>>
  /\ UNCHANGED <<reactorVars, ioVars, execVars, poolVars, connVars>>
  /\ UNCHANGED <<pureVars, errVars, fineVars, srvVars>>

\* The thread of the main loop has not panicked.
LoopAlive == closes.found # "panic"

\* The ids of the connections that were put in the map.
Tabled == {conns[c].id : c \in {d \in DOMAIN conns : conns[d].st # "refused"}}

\* The SERVER arm of the loop for one accepted connection: an id, the
\* registration under Token(id), the insert in the map. When the registration
\* fails the connection is shut down and the id stays in use.
AcceptConn(registers) ==
  /\ LoopAlive
  /\ Len(conns) < MaxAccepts
  /\ LET r == IdGenerator_id(gen)
     IN /\ gen' = r.gen
        /\ IF registers
           THEN /\ conns' = Append(conns, [id |-> r.id, st |-> "open"])
                /\ streams' = [k \in DOMAIN streams \cup {r.id} |->
                                 IF k = r.id THEN Len(conns) + 1 ELSE streams[k]]
           ELSE /\ conns' = Append(conns, [id |-> r.id, st |-> "refused"])
                /\ UNCHANGED streams
  /\ UNCHANGED closes
  /\ TokFrame

\* The WAKER arm of the loop on LoopTask::Close(id): remove_connection. An id
\* that is not in the map: return. Otherwise the stream is out of the map;
\* the lock of a poisoned Mutex panics; else the stream is shut down and
\* deregistered and the id is given back to the generator.
CloseTask(id, lockPoisoned) ==
  /\ LoopAlive
  /\ closes.n < MaxCloses
  /\ id \in Tabled
  /\ IF id \notin DOMAIN streams
     THEN /\ closes' = [n |-> closes.n + 1, id |-> id, found |-> "None"]
          /\ UNCHANGED <<gen, streams, conns>>
     ELSE /\ streams' = [k \in DOMAIN streams \ {id} |-> streams[k]]
          /\ IF lockPoisoned
             THEN /\ closes' = [n |-> closes.n + 1, id |-> id, found |-> "panic"]
                  /\ UNCHANGED <<gen, conns>>
             ELSE /\ closes' = [n |-> closes.n + 1, id |-> id, found |-> "Some"]
                  /\ conns' = [conns EXCEPT ![streams[id]].st = "closed"]
                  /\ gen' = IdGenerator_remove(gen, id)
  /\ TokFrame

\* AIOServer::start up to the loop: an empty map, IdGenerator::new(4).
InitTokens ==
  /\ gen = IdGenerator_new(4)
  /\ streams = <<>>
  /\ conns = <<>>
  /\ closes = NoClose
  /\ polls = [w \in Workers |-> NoPoll]
  /\ spawned = <<>>
  /\ HANDLE = [t \in Threads |-> None]
  /\ EXECUTOR = [t \in Threads |-> None]
  /\ reactors = 0
  /\ pools = [r \in ReactorIds |-> <<>>]
  /\ adp = [s \in Sources |-> NoAdapter]
  /\ NoPure /\ NoErr /\ NoFine /\ NoSrv /\ NoSock /\ NoAsync

NextTokens ==
  \/ \E registers \in BOOLEAN : AcceptConn(registers)
  \/ \E id \in 0..(WAKER + 1 + MaxAccepts), lockPoisoned \in BOOLEAN :
       CloseTask(id, lockPoisoned)

SpecTokens == InitTokens /\ [][NextTokens]_vars

\* C25: an adapter takes exactly one IoWaker when it is built, the head of
\* its reactor's free queue, and its drop puts exactly that waker back at the
\* end of that queue, whatever thread drops it.
C25_AdapterWaker ==
  [][\A s \in Sources :
       /\ (adp[s].st = "none" /\ adp'[s].st = "live") =>
            /\ pools[adp'[s].r] # <<>>
            /\ adp'[s].key = Head(pools[adp'[s].r])
            /\ pools' = [pools EXCEPT ![adp'[s].r] = Tail(@)]
       /\ (adp[s].st = "live" /\ adp'[s].st = "dropped") =>
            pools' = [pools EXCEPT ![adp[s].r] = Append(@, adp[s].key)]]_vars

\* C26: a thread whose context is installed does not complete another
\* start(): no step makes a reactor and installs its handle in a thread that
\* had one, and the thread's reactor handle and pool handle stay the ones of
\* the first call.
C26_StartTwicePanics ==
  [][\A t \in Threads :
       HANDLE[t] # None =>
         /\ ~(reactors' = reactors + 1 /\ HANDLE'[t] = reactors')
         /\ HANDLE'[t] = HANDLE[t]
         /\ EXECUTOR'[t] = EXECUTOR[t]]_vars

(***************************************************************************)
(* http/headers.rs: the header map.                                        *)
(***************************************************************************)
\* The value, as it was given, of the last call whose name is n up to ASCII
\* case; the empty set when there is no such call.
LastSet(calls, n) ==
  LET same == {i \in 1..Len(calls) :
                 to_ascii_lowercase(calls[i].name) = to_ascii_lowercase(n)}
  IN  IF same = {}
      THEN {}
      ELSE {calls[CHOOSE i \in same : \A j \in same : j <= i].value}

\* C27: after a sequence of set_header calls, get_header(n) is the value of
\* the most recent call whose name equals n ignoring ASCII case, and None
\* when there is none.
C27_LastValue ==
  (outp # Pending /\ inp.kind = "get") =>
    outp.got = LastSet(inp.sets, inp.name)

(***************************************************************************)
(* router/mod.rs: the router.                                              *)
(***************************************************************************)
\* The add_route calls whose route matches the request.
Matching == {i \in 1..Len(inp.adds) :
               is_match(NewRoute(inp.adds[i].path, inp.adds[i].method), inp.req)}

\* The i-th add_route has the path pattern and the method of an earlier one.
Repeated(i) ==
  \E j \in 1..(i - 1) : inp.adds[j] = inp.adds[i]

Routed == outp # Pending /\ inp.kind = "route"

\* C28: exec runs the handler of the first added of the routes that match
\* the request, and the not-found handler (the default one, which answers
\* 404, unless another was set) when none matches; an add_route of a route
\* with the path pattern and method of an earlier one leaves the router as it
\* was.
C28_FirstAddedWins ==
  Routed =>
    /\ Matching # {} =>
         outp.ran = Ran("route", CHOOSE i \in Matching : \A j \in Matching : i <= j)
    /\ Matching = {} => outp.ran = Ran("default_not_found", 0)
    /\ \A i \in 1..Len(inp.adds) :
         Repeated(i) => AddRoutes(inp.adds, i) = AddRoutes(inp.adds, i - 1)

\* Two different routes that match were added, and the first of them again.
C28_Witness ==
  /\ Routed
  /\ Cardinality(Matching) = 3
  /\ Repeated(3)
  /\ inp.adds[1] # inp.adds[2]
  /\ Len(outp.router.routes) = 2
  /\ outp.ran = Ran("route", 1)

(***************************************************************************)
(* io/reactor.rs: the routing of a readiness event.                        *)
(***************************************************************************)
\* The reactor handles the event collected for token k.
Handles(k) == evt[k] /\ ~evt'[k]

\* C29: handling an event for a key takes the waker stored in that key's
\* slot and wakes its task once: the slot is empty afterwards, so a second
\* event with no set_waker in between wakes nothing; an event on an empty
\* slot wakes nothing; an event for the self-wake token changes no slot and
\* wakes no task. No other slot changes.
C29_EventTakesWaker ==
  [][\A k \in Keys :
       Handles(k) =>
         /\ \A j \in Keys \ {k} : slots'[j] = slots[j]
         /\ k = waker_token => (slots' = slots /\ G' = G)
         /\ (k # waker_token /\ slots[k] = None) => (slots' = slots /\ G' = G)
         /\ (k # waker_token /\ slots[k] # None) =>
              /\ slots'[k] = None
              /\ G' = Append(G, slots[k])]_vars

\* A task was woken once by an event that took its waker, and events for the
\* same source and for the self-wake token are collected while the source's
\* slot is still empty.
C29_Witness ==
  /\ G = <<1>>
  /\ regKey[1] # None
  /\ slots[regKey[1]] = None
  /\ evt[regKey[1]]
  /\ evt[waker_token]

\* C30: the waker a register returns has an empty slot, also when its key
\* was held before by a source that stored a waker and was deregistered; so
\* until the new owner calls set_waker an event for the key wakes no task.
C30_FreshSlotEmpty ==
  [][\A s \in Sources :
       (regKey[s] = None /\ regKey'[s] # None) => slots'[regKey'[s]] = None]_vars

(***************************************************************************)
(* data/atomic_take.rs under io/reactor.rs: the cell of an IoWaker.        *)
(***************************************************************************)
\* The last set_waker before the n-th operation, if there is one.
LastStore(ops, n) ==
  {i \in 1..(n - 1) : ops[i] # 0 /\ \A j \in (i + 1)..(n - 1) : ops[j] = 0}

CellDone == outp # Pending /\ inp.kind = "cell"

\* C31: a slot holds at most one handle. A take returns the handle of the
\* most recent set_waker when no take came after that set_waker, and nothing
\* otherwise: a set_waker overwrites, a take empties, and of the takes that
\* follow one set_waker exactly the first obtains the handle.
C31_OneHandle ==
  CellDone =>
    /\ \A n \in 1..Len(inp.ops) :
         inp.ops[n] = 0 =>
           outp.gots[n] =
             IF \E i \in LastStore(inp.ops, n) : i = n - 1
             THEN inp.ops[n - 1]
             ELSE None
    /\ outp.cell = IF Len(inp.ops) > 0 THEN inp.ops[Len(inp.ops)] ELSE None

\* Two set_wakers, then several takes: the first take got the second handle
\* and the later ones nothing.
C31_Witness ==
  /\ CellDone
  /\ inp.ops = <<1, 2, 0, 0>>
  /\ outp.gots = <<None, None, 2, None>>
  /\ outp.cell = None

(***************************************************************************)
(* io/tcp_stream.rs, io/tcp_listener.rs: a poll of an adapter.             *)
(***************************************************************************)
\* C32: a poll stores the caller's waker in the adapter's IoWaker before it
\* attempts the non-blocking call, and the call is attempted only after
\* that; the outcome is Ready(Ok(n)) when the call returns Ok(n), 0 bytes
\* included, Pending exactly when it would block, Ready(Err) on any other
\* error.
C32_StoreThenAttempt ==
  [][\A w \in Workers :
       /\ (wpc[w] # "reading" /\ wpc'[w] = "reading") =>
            /\ wpc[w] = "polling"
            /\ slots'[TaskKey(wcur[w])] = wcur[w]
       /\ (polls'[w] # polls[w] \/ (wpc[w] = "reading" /\ wpc'[w] # "reading")) =>
            /\ wpc[w] = "reading"
            /\ polls'[w].poll = "Pending" <=> polls'[w].io = "WouldBlock"
            /\ polls'[w].io = "Ok" =>
                 (polls'[w].poll = "Ready" /\ polls'[w].res = "Ok")
            /\ polls'[w].io \notin {"Ok", "WouldBlock"} =>
                 (polls'[w].poll = "Ready" /\ polls'[w].res = "Err")
            /\ wpc'[w] = IF polls'[w].poll = "Pending" THEN "pending" ELSE "ready"]_vars

\* A read met the end of the stream and was surfaced as Ready(Ok(0)); another
\* worker's poll met an error.
C32_Witness ==
  \E w, v \in Workers :
    /\ polls[w] = [io |-> "Ok", n |-> 0, poll |-> "Ready", res |-> "Ok"]
    /\ wpc[w] = "ready"
    /\ polls[v].res = "Err"

(***************************************************************************)
(* io/context.rs: where context::spawn puts a task.                        *)
(***************************************************************************)
\* The thread is a worker thread of a pool that context::start built.
IsWorker(t) == t > NumThreads

\* C33: a context::spawn made on a worker thread of a started runtime puts
\* the task onto that worker's local queue (the queue is not full), and one
\* made on another thread puts it onto the global queue of the thread's
\* pool.
C33_SpawnPath ==
  [][Len(spawned') = Len(spawned) + 1 =>
       LET e == spawned'[Len(spawned')]
       IN  IF IsWorker(e.by)
           THEN e.to = "local"
           ELSE e.to = "global" /\ e.q = EXECUTOR[e.by]]_vars

(***************************************************************************)
(* data/local_queue.rs, executor/worker.rs: the local queue.               *)
(***************************************************************************)
Enqueued == outp # Pending /\ inp.kind = "push"

\* C34: Worker::enqueue on a local queue below its capacity appends the task
\* to it and leaves the injector alone; on a full local queue it leaves the
\* local queue as it is and sends that task on the injector; so the task is
\* afterwards in exactly one of the two queues, unless the send on the
\* injector failed.
C34_PushOrSpill ==
  Enqueued =>
    /\ inp.n < DEFAULT_SIZE => (outp.appended /\ outp.G = inp.g)
    /\ inp.n >= DEFAULT_SIZE =>
         /\ outp.same
         /\ inp.alive => outp.G = Append(inp.g, inp.t)
    /\ (inp.alive \/ inp.n < DEFAULT_SIZE) =>
         outp.held + Count(outp.G, inp.t) = 1

\* The task was pushed onto a full local queue and is in the injector.
C34_Witness ==
  /\ Enqueued
  /\ inp.n = DEFAULT_SIZE
  /\ outp.len = DEFAULT_SIZE
  /\ outp.G = Append(inp.g, inp.t)

(***************************************************************************)
(* executor/mod.rs, executor/worker.rs: wakes and the queues.              *)
(***************************************************************************)
\* C35: a wake of a task, by the reactor thread or by a worker thread,
\* appends the task to the global injector and leaves every local queue and
\* every future cell as it is; the only tasks ever pushed onto a local queue
\* are new ones.
C35_WakeGlobal ==
  [][/\ \A t \in TaskIds :
          (~owed[t] /\ owed'[t]) => G' = Append(G, t)
     /\ \A t \in TaskIds :
          (future[t] # Unborn /\ G' = Append(G, t)) =>
            (local' = local /\ future' = future)
     /\ \A k \in Keys \ {waker_token} :
          (Handles(k) /\ slots[k] # None) =>
            (G' = Append(G, slots[k]) /\ local' = local /\ future' = future)
     /\ \A w \in Workers :
          Len(local'[w]) > Len(local[w]) =>
            future[local'[w][Len(local'[w])]] = Unborn]_vars

\* A task woken while a worker polls it is in the injector, while the local
\* queue of that worker holds a task it spawned.
C35_Witness ==
  \E t \in TaskIds, w \in Workers :
    /\ owed[t] /\ InQueue(G, t)
    /\ wcur[w] = t /\ wpc[w] = "polling"
    /\ local[w] # <<>>

\* C36: a worker that takes its next task takes the last element of its
\* local queue when that queue is not empty, and receives from the injector
\* only when it is empty; so the local queue of a worker that has left its
\* loop on a Stop is empty.
C36_LocalFirst ==
  /\ [](\A w \in Workers :
          wpc[w] \in {"stopping", "exited"} => local[w] = <<>>)
  /\ [][\A w \in Workers :
          (wpc[w] = "idle" /\ wpc'[w] # "idle") =>
            IF local[w] # <<>>
            THEN /\ wcur'[w] = local[w][Len(local[w])]
                 /\ local'[w] = SubSeq(local[w], 1, Len(local[w]) - 1)
                 /\ G' = G
            ELSE /\ G # <<>> /\ G' = Tail(G)
                 /\ local' = local]_vars

\* An idle worker holds a task in its local queue while the message at the
\* head of the injector is a Stop.
C36_Witness ==
  \E w \in Workers :
    /\ wpc[w] = "idle"
    /\ local[w] # <<>>
    /\ G # <<>> /\ Head(G) = Stop

\* C37: once the future of a task has returned Ready its cell is empty and
\* stays empty, the task is signalled at most once, and a worker that
\* dequeues the task afterwards goes back to its loop without polling,
\* signalling or enqueueing anything.
C37_ReadyIsFinal ==
  /\ [](\A t \in TaskIds :
          /\ done[t] => future[t] = None
          /\ signals[t] <= 1)
  /\ [][\A w \in Workers :
          (wpc[w] = "got" /\ done[wcur[w]] /\ wpc'[w] # "got") =>
            /\ wpc'[w] = "idle"
            /\ signals' = signals
            /\ G' = G /\ local' = local
            /\ future' = future /\ slots' = slots]_vars

\* A worker has dequeued a task whose future completed earlier and was
\* signalled; no worker holds that future any more.
C37_Witness ==
  \E w \in Workers :
    /\ wpc[w] = "got"
    /\ done[wcur[w]]
    /\ signals[wcur[w]] = 1
    /\ Holders(wcur[w]) = {}

(***************************************************************************)
(* aioserver/enhanced_stream.rs: the bytes of the read buffer.             *)
(***************************************************************************)
RECURSIVE Flat(_)
\* The bytes of a sequence of requests, in order.
Flat(reqs) == IF reqs = <<>> THEN <<>> ELSE Head(reqs) \o Flat(Tail(reqs))

NoRepeat(v) == \A i, j \in 1..Len(v) : v[i] = v[j] => i = j

BufRead == inp.kind = "buf" /\ outp # Pending

\* parse_buf of call c found a complete request at the front of the buffer.
Available(c) == parse_u8(Len(c.before), inp.p[c.first]).ok

\* C38: no byte read from the connection is in two of the requests that the
\* calls return; when parse_buf returns Ok, the bytes of the requests it
\* returns, in order, followed by the buffer it leaves are the buffer it was
\* given; and when the buffer does not begin with a complete request it is
\* left as it was.
C38_ByteAccounting ==
  BufRead =>
    /\ NoRepeat(Flat(outp.c1.reqs \o outp.c2.reqs))
    /\ \A c \in {outp.c1, outp.c2} :
         c.ran =>
           /\ c.err = "none" => Flat(c.reqs) \o c.read = c.before
           /\ ~Available(c) => (c.read = c.before /\ c.reqs = <<>>)

\* The first call returns a request and leaves the beginning of the next one
\* in the buffer; the second call returns that one.
C38_Witness ==
  /\ BufRead
  /\ Len(outp.c1.reqs) = 1 /\ outp.c1.read # <<>>
  /\ outp.c2.ran /\ Len(outp.c2.reqs) = 1 /\ outp.c2.read = <<>>
  /\ Len(outp.c2.before) > Len(outp.c1.read)

(***************************************************************************)
(* aioserver/id_generator.rs, aioserver/server.rs: connection tokens.      *)
(***************************************************************************)
Open == {c \in DOMAIN conns : conns[c].st = "open"}

\* C39: two connections that are open at the same time have different ids;
\* no id given to a connection is one of the tokens SERVER, SHUTDOWN, DELETE,
\* WAKER; and a Close for an id that is not in the map leaves the map, the
\* generator and the connections as they are.
C39_ConnectionTokens ==
  /\ [](/\ \A a, b \in Open : conns[a].id = conns[b].id => a = b
        /\ \A c \in DOMAIN conns :
             conns[c].id \notin {SERVER, SHUTDOWN, DELETE, WAKER})
  /\ [][(closes'.n # closes.n /\ closes'.id \notin DOMAIN streams) =>
          (streams' = streams /\ gen' = gen /\ conns' = conns)]_vars

\* A second Close for a connection that is closed already has been handled
\* while two other connections are open.
C39_Witness ==
  /\ closes.n >= 2 /\ closes.found = "None"
  /\ \E c \in DOMAIN conns : conns[c].st = "closed" /\ conns[c].id = closes.id
  /\ Cardinality(Open) >= 2

====
